---- MODULE Spec2Model ----
(***************************************************************************)
(* Verification model of the numerical engines of the repository:          *)
(*   - backtest_estrategia  (src/src/technical_analysis.py)                *)
(*   - simular_portfolios          (src/src/portfolio_utils.py)            *)
(*   - calcular_metricas_riesgo    (src/src/portfolio_utils.py)            *)
(*   - optimizar_portfolio         (src/src/portfolio_utils.py)            *)
(*   - calcular_frontera_eficiente (src/src/portfolio_utils.py)            *)
(*                                                                         *)
(* A volatility is a square root, so it is carried by its square (the      *)
(* variance), or by its sign where only the sign is read.  An objective    *)
(* value is carried by sign(v) * v^2, which orders as v does.  The SLSQP   *)
(* solver is an exact minimiser over the weight vectors whose entries are  *)
(* multiples of 1/GridDen; it may also report failure or raise.            *)
(*                                                                         *)
(* Floating-point values are modelled as exact rationals [n, d] in lowest  *)
(* terms (d > 0); the IEEE value NaN is the record [n = 0, d = 0].  Row k   *)
(* of the frame `datos` (0-based, as in the source) is datos[k + 1].       *)
(* The frame's index is taken to hold unique dates, so that                *)
(* datos.loc[fecha, col] addresses exactly the row being iterated.         *)
(***************************************************************************)
EXTENDS Integers, Sequences, FiniteSets, TLC

VARIABLES
    \* ---- backtest_estrategia ----
    bt_pc,            \* "idle" | "loop" | "done"
    comision,         \* parameter comision (rational)
    capital_inicial,  \* parameter capital_inicial (rational)
    datos,            \* the DataFrame `datos`: a sequence of row records
    capital,          \* local `capital` (cash)
    acciones,         \* local `acciones` (shares held)
    posicion,         \* local `posicion`
    i,                \* loop index of enumerate(datos.iterrows())
    metricas,         \* the returned dict `metricas` ("none" until computed)
    \* ---- simular_portfolios ----
    mc_pc,                  \* "idle" | "inicio" | "loop" | "done"
    retornos_mc,            \* parameter retornos: asset -> column of daily returns
    restricciones,          \* parameter restricciones (None or a dict)
    num_simulaciones,       \* parameter num_simulaciones
    simulaciones_exitosas,  \* local counter
    intentos,               \* local counter
    resultados,             \* resultados['Pesos']: sequence of weight vectors
    resultados_metricas,    \* resultados['Retorno'|'Volatilidad'|'Sharpe'], row by row
    mercado,                \* retornos_medios and matriz_cov (None until computed)
    \* ---- calcular_metricas_riesgo ----
    rm_pc,            \* "idle" | "loop" | "done" | "raised"
    retornos,         \* parameter retornos: column -> sequence of daily returns
    confianza,        \* parameter confianza
    columna,          \* number of columns the for loop has taken
    metricas_riesgo,  \* local dict `metricas`: asset -> metrics record
    avisos,           \* assets reported by the "No hay datos" message
    df_metricas,      \* the returned frame (None until returned)
    historial,        \* history: arguments and outcome of each completed call
    \* ---- optimizar_portfolio ----
    op_pc,              \* "idle" | "call" | "done" | "raised"
    objetivo,           \* parameter objetivo
    restricciones_opt,  \* parameter restricciones (None or a dict)
    mercado_opt,        \* retornos_medios and matriz_cov of the parameter retornos
    resultado_dict,     \* the returned dict (None until returned)
    \* ---- calcular_frontera_eficiente ----
    fe_pc,              \* "idle" | "call" | "loop" | "done"
    num_puntos,         \* parameter num_puntos
    restricciones_fe,   \* parameter restricciones (None or a dict)
    mercado_fe,         \* retornos_medios and matriz_cov of the parameter retornos
    portfolio_min_vol,  \* result of optimizar_portfolio(retornos, 'vol_min', ...)
    portfolio_max_ret,  \* result of optimizar_portfolio(retornos, 'retorno_max', ...)
    retornos_objetivo,  \* np.linspace(ret_min, ret_max, num_puntos)
    tomados,            \* number of targets the for loop has taken
    frontera,           \* the lists of `frontera`, row by row
    resueltos,          \* history: positions of the targets whose solve succeeded
    df_frontera         \* the returned value: None, or the frame's rows as [filas]

bt_vars == <<bt_pc, comision, capital_inicial, datos, capital, acciones,
             posicion, i, metricas>>
mc_vars == <<mc_pc, restricciones, num_simulaciones, simulaciones_exitosas,
             intentos, resultados, resultados_metricas, mercado, retornos_mc>>
rm_vars == <<rm_pc, retornos, confianza, columna, metricas_riesgo, avisos,
             df_metricas, historial>>
op_vars == <<op_pc, objetivo, restricciones_opt, mercado_opt, resultado_dict>>
fe_vars == <<fe_pc, num_puntos, restricciones_fe, mercado_fe, portfolio_min_vol,
             portfolio_max_ret, retornos_objetivo, tomados, frontera, resueltos,
             df_frontera>>
vars == <<bt_vars, mc_vars, rm_vars, op_vars, fe_vars>>

\* what a call of one function leaves alone: the state of the others
fuera_de_bt == <<mc_vars, rm_vars, op_vars, fe_vars>>
fuera_de_mc == <<bt_vars, rm_vars, op_vars, fe_vars>>
fuera_de_rm == <<bt_vars, mc_vars, op_vars, fe_vars>>
fuera_de_op == <<bt_vars, mc_vars, rm_vars, fe_vars>>
fuera_de_fe == <<bt_vars, mc_vars, rm_vars, op_vars>>

-----------------------------------------------------------------------------
(* Bounds of the model *)

\* longest price/signal series replayed with freely chosen signals
MaxRows == 5
\* row of the sell signal in the replay run with the default parameters
RoundTripSellRow == 5
\* longest series replayed when all five functions are checked together
MaxRowsMotores == 3
\* largest num_simulaciones
MaxSim == 2
\* rows of the return matrix given to calcular_metricas_riesgo
MaxObs == 3
\* the solver searches weight vectors whose components are multiples of
\* 1/GridDen; Refinamiento = 1 is the grid of tenths
Refinamiento == 1
\* largest num_puntos
MaxPuntos == 3
\* calls of calcular_metricas_riesgo made by one caller
MaxLlamadas == 3
\* np.random.random draws are taken from the grid {0, 1/(DrawMax+1), ..., DrawMax/(DrawMax+1)}
DrawMax == 2

-----------------------------------------------------------------------------
(* Exact rational arithmetic standing for the source's float arithmetic *)

Abs(x) == IF x < 0 THEN -x ELSE x

RECURSIVE GCD(_, _)
GCD(a, b) == IF b = 0 THEN a ELSE GCD(b, a % b)

Rat(n, d) ==
    LET s == IF d < 0 THEN -1 ELSE 1
        g == GCD(Abs(n), Abs(d))
    IN  [n |-> (s * n) \div g, d |-> (s * d) \div g]

Zero == Rat(0, 1)
One == Rat(1, 1)

\* IEEE NaN (0.0 / 0.0): every ordered comparison with it is false
NaN == [n |-> 0, d |-> 0]
IsNaN(a) == a.d = 0

RMul(a, b) ==
    LET g1 == GCD(Abs(a.n), b.d)
        g2 == GCD(Abs(b.n), a.d)
    IN  IF a.n = 0 \/ b.n = 0 THEN Zero
        ELSE Rat((a.n \div g1) * (b.n \div g2), (a.d \div g2) * (b.d \div g1))

RAdd(a, b) ==
    LET g == GCD(a.d, b.d)
        l == (a.d \div g) * b.d
    IN  Rat(a.n * (l \div a.d) + b.n * (l \div b.d), l)

RNeg(a) == [n |-> -a.n, d |-> a.d]

RSub(a, b) == RAdd(a, RNeg(b))

\* abs / np.abs
RAbsVal(a) == [n |-> Abs(a.n), d |-> a.d]

\* b # 0
RDiv(a, b) == RMul(a, IF b.n < 0 THEN [n |-> -b.d, d |-> -b.n] ELSE [n |-> b.d, d |-> b.n])

RLess(a, b) == ~IsNaN(a) /\ ~IsNaN(b) /\ a.n * b.d < b.n * a.d

RLeq(a, b) == ~IsNaN(a) /\ ~IsNaN(b) /\ a.n * b.d <= b.n * a.d

-----------------------------------------------------------------------------
(* backtest_estrategia: inputs *)

\* señales: 1 = compra, -1 = venta, 0 = hold
SignalSet == {-1, 0, 1}

\* prices of the freely replayed series
PriceSet == {2, 3}

\* prices of the replay with the default parameters
RoundTripPriceSet == {1, 2}

\* commission rates of the freely replayed series (0 <= comision < 1)
ComisionSet == {Rat(1, 10)}

\* default parameters of backtest_estrategia
DefaultComision == Rat(1, 1000)
DefaultCapital == Rat(100000, 1)

\* datos as built before the loop: Posicion = 0, Retorno_Activo = pct_change,
\* Retorno_Estrategia = 0.0, Capital = capital_inicial, Acciones = 0,
\* Comisiones = 0.0
InitDatos(precios, senales, cap) ==
    [k \in 1..Len(precios) |->
        [Precio |-> Rat(precios[k], 1),
         Senal |-> senales[k],
         Posicion |-> 0,
         Retorno_Activo |->
             IF k = 1 THEN NaN
             ELSE RDiv(Rat(precios[k] - precios[k - 1], 1), Rat(precios[k - 1], 1)),
         Retorno_Estrategia |-> Zero,
         Capital |-> cap,
         Acciones |-> Zero,
         Comisiones |-> Zero]]

-----------------------------------------------------------------------------
(* backtest_estrategia: the loop body *)

\* Variant: the first row is processed like every other row
NuncaPrimeraFila(k) == FALSE

\* `if i == 0: continue`
IsFirstRow(k) == k = 0

\* Variant: the price is read one row ahead when there is one
PrecioSiguiente(d, k) == d[IF k + 2 <= Len(d) THEN k + 2 ELSE k + 1].Precio

\* fila['Precio'], fila['Señal'] of the row being iterated
PrecioActual(d, k) == d[k + 1].Precio
SenalActual(d, k) == d[k + 1].Senal

\* Variant: the previous equity is read from the row being processed
CapitalDeLaFila(d, k) == d[k + 1].Capital

\* datos.iloc[i-1]['Capital']; a negative position counts from the end
CapitalAnterior(d, k) == d[IF k = 0 THEN Len(d) ELSE k].Capital

\* The state carried from row to row
Cartera(cap, acc, pos) == [capital |-> cap, acciones |-> acc, posicion |-> pos]

\* `if señal_actual == 1 and posicion == 0`
EsCompra(st, senal) == senal = 1 /\ st.posicion = 0

\* Variant: a sell signal sells whatever the position
EsVentaSinPosicion(st, senal) == senal = -1

\* `elif señal_actual == -1 and posicion == 1`
EsVenta(st, senal) == senal = -1 /\ st.posicion = 1

\* Variant: the commission is recorded but not deducted from the amount invested
ComprarSinDescontar(st, precio, rate) ==
    [capital |-> Zero,
     acciones |-> RDiv(st.capital, precio),
     posicion |-> 1,
     pago |-> TRUE,
     comision_pago |-> RMul(st.capital, rate)]

\* Variant: a buy leaves the commission amount in cash
ComprarDejandoEfectivo(st, precio, rate) ==
    LET comision_pago == RMul(st.capital, rate)
    IN  [capital |-> comision_pago,
         acciones |-> RDiv(RSub(st.capital, comision_pago), precio),
         posicion |-> 1,
         pago |-> TRUE,
         comision_pago |-> comision_pago]

\* Comprar: result state and the commission paid
Comprar(st, precio, rate) ==
    LET comision_pago == RMul(st.capital, rate)
    IN  [capital |-> Zero,
         acciones |-> RDiv(RSub(st.capital, comision_pago), precio),
         posicion |-> 1,
         pago |-> TRUE,
         comision_pago |-> comision_pago]

\* Variant: the commission is computed on the cash held before the sale
VenderComisionSobreEfectivo(st, precio, rate) ==
    LET bruto == RMul(st.acciones, precio)
        comision_pago == RMul(st.capital, rate)
    IN  [capital |-> RSub(bruto, comision_pago),
         acciones |-> Zero,
         posicion |-> 0,
         pago |-> TRUE,
         comision_pago |-> comision_pago]

\* Vender: result state and the commission paid
Vender(st, precio, rate) ==
    LET bruto == RMul(st.acciones, precio)
        comision_pago == RMul(bruto, rate)
    IN  [capital |-> RSub(bruto, comision_pago),
         acciones |-> Zero,
         posicion |-> 0,
         pago |-> TRUE,
         comision_pago |-> comision_pago]

\* Variant: a sell signal while FLAT opens a short position
TransicionConCorto(st, precio, senal, rate) ==
    IF senal = 1 /\ st.posicion = 0
    THEN [capital |-> Zero,
          acciones |-> RDiv(RSub(st.capital, RMul(st.capital, rate)), precio),
          posicion |-> 1, pago |-> TRUE, comision_pago |-> RMul(st.capital, rate)]
    ELSE IF senal = -1 /\ st.posicion = 1
    THEN [capital |-> RSub(RMul(st.acciones, precio), RMul(RMul(st.acciones, precio), rate)),
          acciones |-> Zero,
          posicion |-> 0, pago |-> TRUE,
          comision_pago |-> RMul(RMul(st.acciones, precio), rate)]
    ELSE IF senal = -1 /\ st.posicion = 0
    THEN [capital |-> RAdd(st.capital, st.capital),
          acciones |-> RNeg(RDiv(st.capital, precio)),
          posicion |-> -1, pago |-> FALSE, comision_pago |-> Zero]
    ELSE [capital |-> st.capital, acciones |-> st.acciones,
          posicion |-> st.posicion, pago |-> FALSE, comision_pago |-> Zero]

\* The if / elif of the loop body; pago is FALSE when no branch is taken, in
\* which case datos.loc[fecha, 'Comisiones'] is not assigned
Transicion(st, precio, senal, rate) ==
    IF EsCompra(st, senal) THEN Comprar(st, precio, rate)
    ELSE IF EsVenta(st, senal) THEN Vender(st, precio, rate)
    ELSE [capital |-> st.capital, acciones |-> st.acciones,
          posicion |-> st.posicion, pago |-> FALSE, comision_pago |-> Zero]

\* Variant: the equity of a row is the cash alone
CapitalTotalSoloEfectivo(st, precio) == st.capital

\* capital + (acciones * precio_actual if acciones > 0 else 0)
CapitalTotal(st, precio) ==
    RAdd(st.capital,
         IF RLess(Zero, st.acciones) THEN RMul(st.acciones, precio) ELSE Zero)

\* (capital_total - capital_anterior) / capital_anterior
RetornoEstrategia(capital_total, capital_anterior) ==
    RDiv(RSub(capital_total, capital_anterior), capital_anterior)

\* The row written by datos.loc[fecha, ...] for the iterated row
FilaActualizada(fila, nuevo, capital_total, retorno) ==
    [fila EXCEPT
        !.Comisiones = IF nuevo.pago THEN nuevo.comision_pago ELSE @,
        !.Posicion = nuevo.posicion,
        !.Acciones = nuevo.acciones,
        !.Capital = capital_total,
        !.Retorno_Estrategia = retorno]

\* The rows of datos that one iteration assigns
FilasEscritas(d, k) == {k + 1}

-----------------------------------------------------------------------------
(* backtest_estrategia: metrics *)

RECURSIVE RSum(_, _)
RSum(f, n) == IF n = 0 THEN Zero ELSE RAdd(RSum(f, n - 1), f[n])

RMax(a, b) == IF RLess(a, b) THEN b ELSE a
RMin(a, b) == IF RLess(b, a) THEN b ELSE a

\* datos['Capital'].expanding().max() at row k (1-based)
RECURSIVE CapitalPeak(_, _)
CapitalPeak(d, k) ==
    IF k = 1 THEN d[1].Capital ELSE RMax(CapitalPeak(d, k - 1), d[k].Capital)

Drawdown(d, k) == RDiv(RSub(d[k].Capital, CapitalPeak(d, k)), CapitalPeak(d, k))

RECURSIVE MinDrawdown(_, _)
MinDrawdown(d, k) ==
    IF k = 1 THEN Drawdown(d, 1) ELSE RMin(MinDrawdown(d, k - 1), Drawdown(d, k))

\* Variant: a trade is a row on which the position changed
TradesEjecutados(d) == {k \in 2..Len(d) : d[k].Posicion # d[k - 1].Posicion}

\* trades = datos[datos['Señal'] != 0]
Trades(d) == {k \in 1..Len(d) : d[k].Senal # 0}

\* Variant: a row whose step return is zero counts as a winning row
WinningTradesConEmpates(d) == {k \in Trades(d) : RLeq(Zero, d[k].Retorno_Estrategia)}

\* trades[trades['Retorno_Estrategia'] > 0]
WinningTrades(d) == {k \in Trades(d) : RLess(Zero, d[k].Retorno_Estrategia)}

\* (1 + retorno) ** (1/años) - 1 with años = dias / 252: the power is
\* irrational in general and is carried by its base and the number of days
Anualizar(retorno, dias) == [base |-> RAdd(One, retorno), dias |-> dias]

\* Sign of Series.std() (ddof = 1, missing values skipped): NaN with fewer
\* than two values, 0 when all values are equal, positive otherwise.  The
\* deviation itself is a square root; its sign is what the guards read.
SignoDesvio(xs) ==
    LET S == {k \in 1..Len(xs) : ~IsNaN(xs[k])}
    IN  IF Cardinality(S) < 2 THEN "nan"
        ELSE IF \A j \in S, k \in S : xs[j] = xs[k] THEN "cero"
        ELSE "positiva"

\* retorno_anualizado_estrategia / vol_estrategia if vol_estrategia > 0 else 0
SharpeEstrategia(retorno_anualizado, vol) ==
    IF vol = "positiva" THEN [num |-> retorno_anualizado, vol |-> vol] ELSE Zero

\* retorno_anualizado_buy_hold / vol_buy_hold if vol_buy_hold > 0 else 0
SharpeBuyHold(retorno_anualizado, vol) ==
    IF vol = "positiva" THEN [num |-> retorno_anualizado, vol |-> vol] ELSE Zero

\* Variant: the Calmar ratio divides whatever the drawdown
CalmarRatioSinGuarda(retorno_anualizado, max_drawdown) ==
    [num |-> retorno_anualizado, den |-> RAbsVal(max_drawdown)]

\* calmar_ratio = retorno_anualizado_estrategia / abs(max_drawdown)
\*                if max_drawdown != 0 else 0
\* The quotient of an annualised return is carried by its two terms.
CalmarRatio(retorno_anualizado, max_drawdown) ==
    IF max_drawdown # Zero
    THEN [num |-> retorno_anualizado, den |-> RAbsVal(max_drawdown)]
    ELSE Zero

Metricas(d, cap0) ==
    LET capital_final == d[Len(d)].Capital
        total_trades == Cardinality(Trades(d))
        retorno_total == RDiv(RSub(capital_final, cap0), cap0)
        retorno_buy_hold == RDiv(RSub(d[Len(d)].Precio, d[1].Precio), d[1].Precio)
        anual_estrategia == Anualizar(retorno_total, Len(d))
        anual_buy_hold == Anualizar(retorno_buy_hold, Len(d))
        vol_estrategia == SignoDesvio([k \in 1..Len(d) |-> d[k].Retorno_Estrategia])
        vol_buy_hold == SignoDesvio([k \in 1..Len(d) |-> d[k].Retorno_Activo])
    IN  [Capital_Inicial |-> cap0,
         Capital_Final |-> capital_final,
         Retorno_Total |-> retorno_total,
         Retorno_Anualizado_Estrategia |-> anual_estrategia,
         Retorno_Anualizado_BuyHold |-> anual_buy_hold,
         Volatilidad_Estrategia |-> vol_estrategia,
         Volatilidad_BuyHold |-> vol_buy_hold,
         Sharpe_Estrategia |-> SharpeEstrategia(anual_estrategia, vol_estrategia),
         Sharpe_BuyHold |-> SharpeBuyHold(anual_buy_hold, vol_buy_hold),
         Max_Drawdown |-> MinDrawdown(d, Len(d)),
         Calmar_Ratio |-> CalmarRatio(anual_estrategia, MinDrawdown(d, Len(d))),
         Win_Rate |-> IF total_trades > 0
                      THEN Rat(Cardinality(WinningTrades(d)), total_trades)
                      ELSE Zero,
         Total_Trades |-> total_trades,
         Comisiones_Totales |-> RSum([k \in 1..Len(d) |-> d[k].Comisiones], Len(d)),
         Dias_Backtesting |-> Len(d)]

-----------------------------------------------------------------------------
(* simular_portfolios: inputs and helpers *)

\* retornos.columns
Activos == {"A", "B"}

\* Python's None and dicts: a dict is a function on the keys it holds
None == [none |-> TRUE]
IsNone(x) == "none" \in DOMAIN x

\* dict.get(key, default)
Get(dict, key, default) == IF key \in DOMAIN dict THEN dict[key] ELSE default

\* Values of the parameter restricciones: None, the docstring's example,
\* a feasible box, and dicts that hold one key only
RestriccionesSet ==
    {None,
     [peso_min |-> Rat(1, 20), peso_max |-> Rat(2, 5)],
     [peso_min |-> Rat(1, 4), peso_max |-> Rat(3, 4)],
     [peso_min |-> Rat(2, 5)],
     [peso_max |-> Rat(1, 2)]}

\* `if restricciones is None: restricciones = {'peso_min': 0.0, 'peso_max': 1.0}`
RestriccionesEfectivas(r) ==
    IF IsNone(r) THEN [peso_min |-> Zero, peso_max |-> One] ELSE r

PesoMin(r) == Get(RestriccionesEfectivas(r), "peso_min", Zero)
PesoMax(r) == Get(RestriccionesEfectivas(r), "peso_max", One)

\* Variant: the attempt ceiling is num_simulaciones itself
MaxIntentosSinFactor(n) == n

\* max_intentos = num_simulaciones * 10
MaxIntentos(n) == n * 10

\* the while condition
ContinuaBucle(exitosas, hechos, n) == exitosas < n /\ hechos < MaxIntentos(n)

\* np.random.random(num_activos): each component in [0.0, 1.0)
Sorteos == [Activos -> {Rat(x, DrawMax + 1) : x \in 0..DrawMax}]

RECURSIVE SumaPesos(_, _)
SumaPesos(w, S) ==
    IF S = {} THEN Zero
    ELSE LET a == CHOOSE x \in S : TRUE
         IN  IF IsNaN(w[a]) THEN NaN
             ELSE LET resto == SumaPesos(w, S \ {a})
                  IN  IF IsNaN(resto) THEN NaN ELSE RAdd(w[a], resto)

\* float division: 0.0 / 0.0 is NaN (numpy warns and goes on)
FDiv(a, b) == IF b.n = 0 /\ a.n = 0 THEN NaN ELSE RDiv(a, b)

\* float product, sum and difference: NaN propagates
FMul(a, b) == IF IsNaN(a) \/ IsNaN(b) THEN NaN ELSE RMul(a, b)
FAdd(a, b) == IF IsNaN(a) \/ IsNaN(b) THEN NaN ELSE RAdd(a, b)
FSub(a, b) == IF IsNaN(a) \/ IsNaN(b) THEN NaN ELSE RSub(a, b)

\* np.sum of f over the index set S
RECURSIVE FSum(_, _)
FSum(f, S) ==
    IF S = {} THEN Zero
    ELSE LET a == CHOOSE x \in S : TRUE
         IN  FAdd(f[a], FSum(f, S \ {a}))

\* pesos / np.sum(pesos)
Normalizar(u) ==
    LET total == SumaPesos(u, Activos)
    IN  [a \in Activos |-> FDiv(u[a], total)]

\* np.any(pesos < peso_min) or np.any(pesos > peso_max)
ViolaRestricciones(pesos, r) ==
    \/ \E a \in Activos : RLess(pesos[a], PesoMin(r))
    \/ \E a \in Activos : RLess(PesoMax(r), pesos[a])

\* np.sum(retornos_medios * pesos)
RetornoPortfolio(m, pesos, S) == FSum([a \in S |-> FMul(m.medios[a], pesos[a])], S)

\* np.dot(pesos.T, np.dot(matriz_cov, pesos)): the square of the portfolio
\* volatility.  The volatility np.sqrt(...) is carried by this square.
Volatilidad2(m, pesos, S) ==
    FSum([a \in S |->
            FMul(pesos[a], FSum([b \in S |-> FMul(m.cov[a][b], pesos[b])], S))], S)

\* `vol > 0` for a volatility carried by its square
VolPositiva(vol2) == RLess(Zero, vol2)

\* sharpe_portfolio = ret_portfolio / vol_portfolio if vol_portfolio > 0 else 0
SharpeSimulacion(ret, vol2) ==
    IF VolPositiva(vol2) THEN [num |-> ret, vol |-> vol2] ELSE Zero

\* The Retorno, Volatilidad and Sharpe entries of an accepted sample
MetricasSimulacion(m, pesos) ==
    LET ret_portfolio == RetornoPortfolio(m, pesos, Activos)
        vol_portfolio == Volatilidad2(m, pesos, Activos)
    IN  [Retorno |-> ret_portfolio,
         Volatilidad |-> vol_portfolio,
         Sharpe |-> SharpeSimulacion(ret_portfolio, vol_portfolio)]

-----------------------------------------------------------------------------
(* calcular_metricas_riesgo: inputs and helpers.  Parametric VaR, skewness, *)
(* kurtosis and the Jarque-Bera fields are transcendental functions of the  *)
(* sample that feed no branch; the record of an asset leaves them out.      *)

\* default of the parameter ventana_vol
VentanaVol == 252

\* retornos.columns, in order
Columnas == <<"A", "B">>

\* values of the parameter confianza: the default 0.05, and the median
ConfianzaSet == {Rat(1, 20), Rat(1, 2)}

\* a daily return (above -1), or NaN for a missing observation
ObsSet == {NaN, Rat(-1, 10), Rat(1, 5)}

RetornosSet == [{Columnas[k] : k \in 1..Len(Columnas)} -> [1..MaxObs -> ObsSet]]

\* Series.dropna()
Dropna(xs) == SelectSeq(xs, LAMBDA x : ~IsNaN(x))

\* Series.mean(): NaN for an empty series
Media(xs) ==
    IF Len(xs) = 0 THEN NaN ELSE RDiv(RSum(xs, Len(xs)), Rat(Len(xs), 1))

\* Series.std() ** 2 (ddof = 1): NaN with fewer than two values
Varianza(xs) ==
    IF Len(xs) < 2 THEN NaN
    ELSE LET m == Media(xs)
             desvios == [k \in 1..Len(xs) |-> RMul(RSub(xs[k], m), RSub(xs[k], m))]
         IN  RDiv(RSum(desvios, Len(xs)), Rat(Len(xs) - 1, 1))

\* the k-th smallest value of xs (k = 1 for the minimum)
OrdenEstadistico(xs, k) ==
    CHOOSE v \in {xs[j] : j \in 1..Len(xs)} :
        /\ Cardinality({j \in 1..Len(xs) : RLess(xs[j], v)}) < k
        /\ k <= Cardinality({j \in 1..Len(xs) : RLeq(xs[j], v)})

\* np.percentile(xs, q * 100) with linear interpolation, for a non-empty xs
Percentil(xs, q) ==
    LET pos == (Len(xs) - 1) * q.n
        j == pos \div q.d
        g == Rat(pos % q.d, q.d)
        lo == OrdenEstadistico(xs, j + 1)
        hi == OrdenEstadistico(xs, IF j + 2 <= Len(xs) THEN j + 2 ELSE Len(xs))
    IN  RAdd(lo, RMul(RSub(hi, lo), g))

\* ret_activo[ret_activo <= var_historico]
Cola(xs, var_historico) == SelectSeq(xs, LAMBDA x : RLeq(x, var_historico))

\* Variant: the tail is cut strictly below the threshold
CVaRHistoricoEstricto(xs, var_historico) ==
    Media(SelectSeq(xs, LAMBDA x : RLess(x, var_historico)))

\* cvar_historico = ret_activo[ret_activo <= var_historico].mean()
CVaRHistorico(xs, var_historico) == Media(Cola(xs, var_historico))

\* precio_cum = (1 + ret_activo).cumprod(), at position k
RECURSIVE PrecioCum(_, _)
PrecioCum(xs, k) ==
    IF k = 1 THEN RAdd(One, xs[1])
    ELSE RMul(PrecioCum(xs, k - 1), RAdd(One, xs[k]))

\* Variant: the running minimum takes the place of the running peak
RECURSIVE RollingMin(_, _)
RollingMin(xs, k) ==
    IF k = 1 THEN PrecioCum(xs, 1)
    ELSE RMin(RollingMin(xs, k - 1), PrecioCum(xs, k))

\* rolling_max = precio_cum.expanding().max(), at position k
RECURSIVE RollingMax(_, _)
RollingMax(xs, k) ==
    IF k = 1 THEN PrecioCum(xs, 1)
    ELSE RMax(RollingMax(xs, k - 1), PrecioCum(xs, k))

\* drawdown = (precio_cum - rolling_max) / rolling_max, at position k
DrawdownActivo(xs, k) ==
    RDiv(RSub(PrecioCum(xs, k), RollingMax(xs, k)), RollingMax(xs, k))

\* max_drawdown = drawdown.min()
RECURSIVE MinDrawdownActivo(_, _)
MinDrawdownActivo(xs, k) ==
    IF k = 1 THEN DrawdownActivo(xs, 1)
    ELSE RMin(MinDrawdownActivo(xs, k - 1), DrawdownActivo(xs, k))

\* Variant: the per-asset Sharpe ratio divides without looking at the volatility
SharpeActivoSinGuarda(retorno_anual, volatilidad_anual2) ==
    [num |-> retorno_anual, vol |-> volatilidad_anual2]

\* sharpe_ratio = retorno_anual / volatilidad_anual if volatilidad_anual > 0 else 0
SharpeActivo(retorno_anual, volatilidad_anual2) ==
    IF VolPositiva(volatilidad_anual2)
    THEN [num |-> retorno_anual, vol |-> volatilidad_anual2]
    ELSE Zero

\* The body of the for loop for an asset with observations.  The annualised
\* volatility std_diaria * sqrt(ventana_vol) is carried by its square.
MetricasActivo(ret_activo, conf) ==
    LET media_diaria == Media(ret_activo)
        retorno_anual == FMul(media_diaria, Rat(VentanaVol, 1))
        volatilidad_anual2 == FMul(Varianza(ret_activo), Rat(VentanaVol, 1))
        var_historico == Percentil(ret_activo, conf)
    IN  [Retorno_Anual |-> retorno_anual,
         Volatilidad_Anual |-> volatilidad_anual2,
         Sharpe_Ratio |-> SharpeActivo(retorno_anual, volatilidad_anual2),
         VaR_Historico |-> var_historico,
         CVaR_Historico |-> CVaRHistorico(ret_activo, var_historico),
         Max_Drawdown |-> MinDrawdownActivo(ret_activo, Len(ret_activo))]

\* calcular_metricas_riesgo has not been called
RMIdle ==
    /\ rm_pc = "idle"
    /\ retornos = None
    /\ confianza = Rat(1, 20)
    /\ columna = 0
    /\ metricas_riesgo = None
    /\ avisos = {}
    /\ df_metricas = None
    /\ historial = <<>>

-----------------------------------------------------------------------------
(* optimizar_portfolio: inputs and helpers.  scipy's SLSQP is modelled as a *)
(* minimiser over the weight vectors of a grid: it may report success with  *)
(* a feasible vector that no feasible vector of the grid beats, report      *)
(* failure, or throw.                                                       *)

\* retornos.columns of the frames given to the optimiser
ActivosOpt == {"A", "B", "C"}

\* retornos.cov() * 252 of three uncorrelated assets
CovDiagonal(va, vb, vc) ==
    [a \in ActivosOpt |-> [b \in ActivosOpt |->
        IF a # b THEN Zero
        ELSE IF a = "A" THEN va ELSE IF a = "B" THEN vb ELSE vc]]

\* retornos.mean() * 252: 5%, 10% and 15%
MediosEscalonados ==
    [a \in ActivosOpt |->
        IF a = "A" THEN Rat(1, 20) ELSE IF a = "B" THEN Rat(1, 10) ELSE Rat(3, 20)]

\* three risky assets
MercadoRiesgoso ==
    [medios |-> MediosEscalonados,
     cov |-> CovDiagonal(Rat(1, 100), Rat(1, 25), Rat(9, 100))]

\* asset A has constant returns
MercadoSinRiesgo ==
    [medios |-> MediosEscalonados,
     cov |-> CovDiagonal(Zero, Rat(1, 25), Rat(9, 100))]

\* the three assets have the same mean return
MercadoMediasIguales ==
    [medios |-> [a \in ActivosOpt |-> Rat(1, 10)],
     cov |-> CovDiagonal(Rat(1, 100), Rat(1, 25), Rat(9, 100))]

MercadosOpt == {MercadoRiesgoso, MercadoSinRiesgo, MercadoMediasIguales}

\* values of the parameter objetivo: the three recognised ones and another
ObjetivoSet == {"sharpe_max", "vol_min", "retorno_max", "otro"}

\* values of the parameter restricciones: None, an empty dict, the full box
\* without costs, a box with costs, a box no weight vector fits in, and a
\* box whose minimum exceeds its maximum
RestriccionesOptSet ==
    {None,
     <<>>,
     [peso_min |-> Zero, peso_max |-> One],
     [peso_min |-> Rat(1, 10), peso_max |-> Rat(1, 2),
      costos_transaccion |-> Rat(1, 200)],
     [peso_min |-> Rat(2, 5), peso_max |-> Rat(1, 2)],
     [peso_min |-> Rat(1, 2), peso_max |-> Rat(2, 5)]}

\* `if restricciones is None: restricciones = {'peso_min': 0.05, ...}`
RestriccionesOptEfectivas(r) ==
    IF IsNone(r)
    THEN [peso_min |-> Rat(1, 20), peso_max |-> Rat(2, 5),
          costos_transaccion |-> Rat(1, 200)]
    ELSE r

\* bounds = [(peso_min, peso_max)] * num_activos
CotasOpt(r) ==
    [lo |-> Get(RestriccionesOptEfectivas(r), "peso_min", Zero),
     hi |-> Get(RestriccionesOptEfectivas(r), "peso_max", One)]

\* restricciones.get('costos_transaccion', 0) * np.sum(np.abs(pesos))
Costos(r, pesos) ==
    FMul(Get(RestriccionesOptEfectivas(r), "costos_transaccion", Zero),
         FSum([a \in ActivosOpt |-> RAbsVal(pesos[a])], ActivosOpt))

\* The value v of an objective function is carried by sign(v) * v ** 2,
\* which orders finite values as the values themselves; inf = -1 is -np.inf
Valor(cuadrado_con_signo) == [inf |-> 0, q |-> cuadrado_con_signo]
MenosInf == [inf |-> -1, q |-> Zero]

\* u < v on objective values
Menor(u, v) ==
    IF u.inf = -1 THEN v.inf # -1
    ELSE v.inf # -1 /\ RLess(u.q, v.q)

\* objetivo_sharpe: -(ret - costos) / vol if vol > 0 else -np.inf
ObjetivoSharpe(m, r, pesos) ==
    LET ret == RetornoPortfolio(m, pesos, ActivosOpt)
        vol2 == Volatilidad2(m, pesos, ActivosOpt)
        neto == RSub(ret, Costos(r, pesos))
    IN  IF VolPositiva(vol2)
        THEN Valor(RNeg(RDiv(RMul(neto, RAbsVal(neto)), vol2)))
        ELSE MenosInf

\* objetivo_volatilidad
ObjetivoVolatilidad(m, r, pesos) == Valor(Volatilidad2(m, pesos, ActivosOpt))

\* objetivo_retorno
ObjetivoRetorno(m, r, pesos) ==
    LET neto == RSub(RetornoPortfolio(m, pesos, ActivosOpt), Costos(r, pesos))
    IN  Valor(RNeg(RMul(neto, RAbsVal(neto))))

\* fun_objetivo, for a recognised objetivo
FunObjetivo(obj, m, r, pesos) ==
    IF obj = "sharpe_max" THEN ObjetivoSharpe(m, r, pesos)
    ELSE IF obj = "vol_min" THEN ObjetivoVolatilidad(m, r, pesos)
    ELSE ObjetivoRetorno(m, r, pesos)

GridDen == 10 * Refinamiento

\* the weight vectors of the grid that satisfy the constraint np.sum(x) - 1 = 0
Simplex ==
    UNION {{[x \in ActivosOpt |->
               IF x = "A" THEN Rat(a, GridDen)
               ELSE IF x = "B" THEN Rat(b, GridDen)
               ELSE Rat(GridDen - a - b, GridDen)] : b \in 0..(GridDen - a)} :
           a \in 0..GridDen}

\* ... and the bounds
Factibles(cotas) ==
    {w \in Simplex : \A a \in ActivosOpt :
        RLeq(cotas.lo, w[a]) /\ RLeq(w[a], cotas.hi)}

\* the candidates that no candidate beats; tabla pairs each candidate with
\* the value of the objective function on it
Minimos(tabla) ==
    {p[1] : p \in {q \in tabla : \A o \in tabla : ~Menor(o[2], q[2])}}

\* The possible results of minimize(..., method='SLSQP', bounds, constraints):
\* success with a minimum of the feasible grid, failure with a message, or
\* an exception (always so when a lower bound exceeds its upper bound)
Minimize(tabla, cotas) ==
    IF RLess(cotas.hi, cotas.lo)
    THEN {[estado |-> "excepcion", x |-> None]}
    ELSE {[estado |-> "fallo", x |-> None], [estado |-> "excepcion", x |-> None]}
         \cup {[estado |-> "exito", x |-> w] : w \in Minimos(tabla)}

\* sharpe_optimo = ret_optimo / vol_optimo if vol_optimo > 0 else 0
SharpeBruto(ret_optimo, vol_optimo2) ==
    IF VolPositiva(vol_optimo2) THEN [num |-> ret_optimo, vol |-> vol_optimo2]
    ELSE Zero

\* 'sharpe_neto': ret_neto / vol_optimo if vol_optimo > 0 else 0
SharpeNeto(ret_neto, vol_optimo2) ==
    IF VolPositiva(vol_optimo2) THEN [num |-> ret_neto, vol |-> vol_optimo2]
    ELSE Zero

\* resultado_dict of a successful optimisation
ResultadoExitoso(m, obj, r, pesos_optimos) ==
    LET ret_optimo == RetornoPortfolio(m, pesos_optimos, ActivosOpt)
        vol_optimo2 == Volatilidad2(m, pesos_optimos, ActivosOpt)
        costos == Costos(r, pesos_optimos)
        ret_neto == FSub(ret_optimo, costos)
    IN  [exito |-> TRUE,
         pesos |-> pesos_optimos,
         retorno_bruto |-> ret_optimo,
         retorno_neto |-> ret_neto,
         volatilidad |-> vol_optimo2,
         sharpe_bruto |-> SharpeBruto(ret_optimo, vol_optimo2),
         sharpe_neto |-> SharpeNeto(ret_neto, vol_optimo2),
         costos_estimados |-> costos,
         objetivo |-> obj,
         restricciones_aplicadas |-> RestriccionesOptEfectivas(r)]

\* Variant: a failed solve still hands out the solver's last iterate
ResultadoFallidoConPesos(salida) ==
    [exito |-> FALSE, error |-> "resultado.message",
     pesos |-> [a \in ActivosOpt |-> Rat(1, 3)]]

\* {'exito': False, 'error': resultado.message} and {'exito': False, 'error': str(e)}
ResultadoFallido(salida) ==
    [exito |-> FALSE,
     error |-> IF salida.estado = "fallo" THEN "resultado.message" ELSE "str(e)"]

\* The try block for one result of the solver
ResultadoDe(m, obj, r, salida) ==
    IF salida.estado = "exito" THEN ResultadoExitoso(m, obj, r, salida.x)
    ELSE ResultadoFallido(salida)

\* The dicts optimizar_portfolio can return for a recognised objetivo
OptimizarPortfolio(m, obj, r) ==
    LET cotas == CotasOpt(r)
        tabla == {<<w, FunObjetivo(obj, m, r, w)>> : w \in Factibles(cotas)}
    IN  {ResultadoDe(m, obj, r, salida) : salida \in Minimize(tabla, cotas)}

\* optimizar_portfolio has not been called
OPIdle ==
    /\ op_pc = "idle"
    /\ objetivo = "sharpe_max"
    /\ restricciones_opt = None
    /\ mercado_opt = None
    /\ resultado_dict = None

-----------------------------------------------------------------------------
(* calcular_frontera_eficiente: helpers *)

\* np.linspace(a, b, n) for n >= 1
Linspace(a, b, n) ==
    [k \in 1..n |->
        IF n = 1 THEN a
        ELSE FAdd(a, FMul(FSub(b, a), Rat(k - 1, n - 1)))]

\* `if restricciones:` is false for None and for an empty dict
Verdadero(r) == ~IsNone(r) /\ DOMAIN r # {}

\* the bounds of the per-target solve
CotasFrontera(r) ==
    IF Verdadero(r)
    THEN [lo |-> Get(r, "peso_min", Zero), hi |-> Get(r, "peso_max", One)]
    ELSE [lo |-> Zero, hi |-> One]

\* sharpe = ret_target / vol if vol > 0 else 0
SharpeFrontera(ret_target, vol2) ==
    IF VolPositiva(vol2) THEN [num |-> ret_target, vol |-> vol2] ELSE Zero

\* The possible results of the solve for one target: minimise the volatility
\* over the vectors within the bounds that sum to 1 and whose gross return
\* np.sum(retornos_medios * x) equals ret_target
MinimizeObjetivo(m, r, ret_target) ==
    LET cotas == CotasFrontera(r)
        tabla == {<<w, ObjetivoVolatilidad(m, r, w)>> :
                     w \in {v \in Factibles(cotas) :
                              RetornoPortfolio(m, v, ActivosOpt) = ret_target}}
    IN  Minimize(tabla, cotas)

\* Variant: a target whose solve did not succeed leaves a placeholder row
FilasConMarcador(filas, m, ret_target, salida) ==
    Append(filas,
           IF salida.estado = "exito"
           THEN [Retorno |-> ret_target,
                 Volatilidad |-> Volatilidad2(m, salida.x, ActivosOpt),
                 Sharpe |-> SharpeFrontera(ret_target,
                                           Volatilidad2(m, salida.x, ActivosOpt)),
                 Pesos |-> salida.x]
           ELSE [Retorno |-> ret_target, Volatilidad |-> NaN, Sharpe |-> NaN,
                 Pesos |-> None])

\* The rows of `frontera` after the try block of one target
FilasTras(filas, m, ret_target, salida) ==
    IF salida.estado = "exito"
    THEN LET vol2 == Volatilidad2(m, salida.x, ActivosOpt)
         IN  Append(filas, [Retorno |-> ret_target,
                            Volatilidad |-> vol2,
                            Sharpe |-> SharpeFrontera(ret_target, vol2),
                            Pesos |-> salida.x])
    ELSE filas

\* The parameters retornos and restricciones of the calls of
\* calcular_frontera_eficiente: every restricciones with the two markets of
\* distinct means, and the market of equal means with costs
EntradasFE ==
    {[mercado |-> m, restricciones |-> r] :
        m \in {MercadoRiesgoso, MercadoSinRiesgo}, r \in RestriccionesOptSet}
    \cup {[mercado |-> MercadoMediasIguales,
           restricciones |->
              [peso_min |-> Rat(1, 10), peso_max |-> Rat(1, 2),
               costos_transaccion |-> Rat(1, 200)]]}

\* calcular_frontera_eficiente has not been called
FEIdle ==
    /\ fe_pc = "idle"
    /\ num_puntos = 0
    /\ restricciones_fe = None
    /\ mercado_fe = None
    /\ portfolio_min_vol = None
    /\ portfolio_max_ret = None
    /\ retornos_objetivo = <<>>
    /\ tomados = 0
    /\ frontera = <<>>
    /\ resueltos = {}
    /\ df_frontera = None

-----------------------------------------------------------------------------
(* backtest_estrategia: the state machine *)

\* simular_portfolios has not been called
MCIdle ==
    /\ mc_pc = "idle"
    /\ restricciones = None
    /\ num_simulaciones = 0
    /\ simulaciones_exitosas = 0
    /\ intentos = 0
    /\ resultados = <<>>
    /\ resultados_metricas = <<>>
    /\ mercado = None
    /\ retornos_mc = None

\* backtest_estrategia has not been called
BTIdle ==
    /\ bt_pc = "idle"
    /\ comision = DefaultComision
    /\ capital_inicial = DefaultCapital
    /\ datos = <<>>
    /\ capital = Zero
    /\ acciones = Zero
    /\ posicion = 0
    /\ i = 0
    /\ metricas = "none"

BTStart(precios, senales, rate, cap) ==
    /\ bt_pc = "loop"
    /\ comision = rate
    /\ capital_inicial = cap
    /\ datos = InitDatos(precios, senales, cap)
    /\ capital = cap
    /\ acciones = Zero
    /\ posicion = 0
    /\ i = 0
    /\ metricas = "none"

\* Any series of 1..MaxRows rows with any signals
InitReplay ==
    \E n \in 1..MaxRows :
        \E precios \in [1..n -> PriceSet], senales \in [1..n -> SignalSet],
           rate \in ComisionSet :
            BTStart(precios, senales, rate, Rat(1000, 1))

\* Default comision and capital_inicial: a buy signal at row 1, a sell signal
\* at row RoundTripSellRow, and no sell signal in between
InitRoundTrip ==
    \E precios \in [1..(RoundTripSellRow + 1) -> RoundTripPriceSet],
       senales \in [1..(RoundTripSellRow + 1) -> SignalSet] :
        /\ senales[2] = 1
        /\ senales[RoundTripSellRow + 1] = -1
        /\ \A k \in 3..RoundTripSellRow : senales[k] # -1
        /\ BTStart(precios, senales, DefaultComision, DefaultCapital)

InitBT == InitReplay \/ InitRoundTrip

Init == InitBT /\ MCIdle /\ RMIdle /\ OPIdle /\ FEIdle

\* i == 0: continue
SkipFirstRow ==
    /\ bt_pc = "loop"
    /\ i < Len(datos)
    /\ IsFirstRow(i)
    /\ i' = i + 1
    /\ UNCHANGED <<bt_pc, comision, capital_inicial, datos, capital, acciones,
                   posicion, metricas>>
    /\ UNCHANGED fuera_de_bt

\* One iteration of the loop body for row i
ProcessRow ==
    /\ bt_pc = "loop"
    /\ i < Len(datos)
    /\ ~IsFirstRow(i)
    /\ LET precio_actual == PrecioActual(datos, i)
           senal_actual == SenalActual(datos, i)
           nuevo == Transicion(Cartera(capital, acciones, posicion),
                               precio_actual, senal_actual, comision)
           capital_total == CapitalTotal(nuevo, precio_actual)
           retorno == RetornoEstrategia(capital_total, CapitalAnterior(datos, i))
       IN  /\ capital' = nuevo.capital
           /\ acciones' = nuevo.acciones
           /\ posicion' = nuevo.posicion
           /\ datos' = [k \in 1..Len(datos) |->
                          IF k \in FilasEscritas(datos, i)
                          THEN FilaActualizada(datos[k], nuevo, capital_total, retorno)
                          ELSE datos[k]]
    /\ i' = i + 1
    /\ UNCHANGED <<bt_pc, comision, capital_inicial, metricas>>
    /\ UNCHANGED fuera_de_bt

\* The loop is exhausted: performance metrics and return
ComputeMetrics ==
    /\ bt_pc = "loop"
    /\ i = Len(datos)
    /\ metricas' = Metricas(datos, capital_inicial)
    /\ bt_pc' = "done"
    /\ UNCHANGED <<comision, capital_inicial, datos, capital, acciones,
                   posicion, i>>
    /\ UNCHANGED fuera_de_bt

Next == SkipFirstRow \/ ProcessRow \/ ComputeMetrics

Spec == Init /\ [][Next]_vars

-----------------------------------------------------------------------------
(* simular_portfolios: the state machine *)

\* trading days per year in `retornos.mean() * 252`, `retornos.cov() * 252`
DiasAnuales == 252

\* Frames given as the parameter retornos (two columns on a common index):
\* two rows with A constant, two rows with both assets moving, a single
\* row, no row, and two rows where A misses one observation
FramesMC ==
    {[a \in Activos |-> IF a = "A" THEN <<Rat(1, 2520), Rat(1, 2520)>>
                                   ELSE <<Zero, Rat(1, 630)>>],
     [a \in Activos |-> IF a = "A" THEN <<Rat(1, 1260), Zero>>
                                   ELSE <<Zero, Rat(1, 630)>>],
     [a \in Activos |-> IF a = "A" THEN <<Rat(1, 2520)>> ELSE <<Rat(1, 1260)>>],
     [a \in Activos |-> <<>>],
     [a \in Activos |-> IF a = "A" THEN <<Rat(1, 2520), NaN>>
                                   ELSE <<Zero, Rat(1, 630)>>]}

\* One entry of DataFrame.cov() (ddof = 1): the covariance over the rows
\* where both columns hold a value; NaN with fewer than two such rows
Covarianza(xs, ys) ==
    LET filas == {k \in 1..Len(xs) : ~IsNaN(xs[k]) /\ ~IsNaN(ys[k])}
        n == Cardinality(filas)
        mx == RDiv(FSum(xs, filas), Rat(n, 1))
        my == RDiv(FSum(ys, filas), Rat(n, 1))
    IN  IF n < 2 THEN NaN
        ELSE RDiv(FSum([k \in filas |-> RMul(RSub(xs[k], mx), RSub(ys[k], my))],
                       filas),
                  Rat(n - 1, 1))

\* retornos_medios = retornos.mean() * 252 (missing values skipped, NaN for
\* a column without values) and matriz_cov = retornos.cov() * 252
EstadisticasAnuales(frame) ==
    [medios |-> [a \in Activos |->
                   FMul(Media(Dropna(frame[a])), Rat(DiasAnuales, 1))],
     cov |-> [a \in Activos |-> [b \in Activos |->
                FMul(Covarianza(frame[a], frame[b]), Rat(DiasAnuales, 1))]]]

InitMC ==
    /\ mc_pc = "inicio"
    /\ restricciones \in RestriccionesSet
    /\ num_simulaciones \in 1..MaxSim
    /\ simulaciones_exitosas = 0
    /\ intentos = 0
    /\ resultados = <<>>
    /\ resultados_metricas = <<>>
    /\ mercado = None
    /\ retornos_mc \in FramesMC
    /\ BTIdle
    /\ RMIdle
    /\ OPIdle
    /\ FEIdle

\* The statements before the loop: default restricciones, retornos_medios,
\* matriz_cov, empty result lists, counters
CalcularEstadisticas ==
    /\ mc_pc = "inicio"
    /\ mercado' = EstadisticasAnuales(retornos_mc)
    /\ mc_pc' = "loop"
    /\ UNCHANGED <<restricciones, num_simulaciones, simulaciones_exitosas,
                   intentos, resultados, resultados_metricas, retornos_mc>>
    /\ UNCHANGED fuera_de_mc

\* One iteration of the while loop: draw, normalise, reject or store
SimularIntento ==
    /\ mc_pc = "loop"
    /\ ContinuaBucle(simulaciones_exitosas, intentos, num_simulaciones)
    /\ intentos' = intentos + 1
    /\ \E u \in Sorteos :
          LET pesos == Normalizar(u)
          IN  IF ViolaRestricciones(pesos, restricciones)
              THEN UNCHANGED <<simulaciones_exitosas, resultados,
                               resultados_metricas>>
              ELSE /\ resultados' = Append(resultados, pesos)
                   /\ resultados_metricas' =
                         Append(resultados_metricas,
                                MetricasSimulacion(mercado, pesos))
                   /\ simulaciones_exitosas' = simulaciones_exitosas + 1
    /\ UNCHANGED <<mc_pc, restricciones, num_simulaciones, mercado, retornos_mc>>
    /\ UNCHANGED fuera_de_mc

\* The while condition is false: build df_simulacion and return it
RetornarSimulacion ==
    /\ mc_pc = "loop"
    /\ ~ContinuaBucle(simulaciones_exitosas, intentos, num_simulaciones)
    /\ mc_pc' = "done"
    /\ UNCHANGED <<restricciones, num_simulaciones, simulaciones_exitosas,
                   intentos, resultados, resultados_metricas, mercado,
                   retornos_mc>>
    /\ UNCHANGED fuera_de_mc

NextMC == CalcularEstadisticas \/ SimularIntento \/ RetornarSimulacion

SpecMC == InitMC /\ [][NextMC]_vars

-----------------------------------------------------------------------------
(* calcular_metricas_riesgo: the state machine *)

InitRM ==
    /\ rm_pc = "loop"
    /\ retornos \in RetornosSet
    /\ confianza \in ConfianzaSet
    /\ columna = 0
    /\ metricas_riesgo = <<>>
    /\ avisos = {}
    /\ df_metricas = None
    /\ historial = <<>>
    /\ BTIdle
    /\ MCIdle
    /\ OPIdle
    /\ FEIdle

\* for activo in retornos.columns, with no observation left by dropna():
\* report it and continue
SaltarActivo ==
    /\ rm_pc = "loop"
    /\ columna < Len(Columnas)
    /\ LET activo == Columnas[columna + 1]
       IN  /\ Len(Dropna(retornos[activo])) = 0
           /\ avisos' = avisos \cup {activo}
    /\ columna' = columna + 1
    /\ UNCHANGED <<rm_pc, retornos, confianza, metricas_riesgo, df_metricas,
                   historial>>
    /\ UNCHANGED fuera_de_rm

\* for activo in retornos.columns, with observations: metricas[activo] = {...}
ProcesarActivo ==
    /\ rm_pc = "loop"
    /\ columna < Len(Columnas)
    /\ LET activo == Columnas[columna + 1]
           ret_activo == Dropna(retornos[activo])
       IN  /\ Len(ret_activo) # 0
           /\ metricas_riesgo' =
                 [a \in DOMAIN metricas_riesgo \cup {activo} |->
                    IF a = activo THEN MetricasActivo(ret_activo, confianza)
                    ELSE metricas_riesgo[a]]
    /\ columna' = columna + 1
    /\ UNCHANGED <<rm_pc, retornos, confianza, avisos, df_metricas, historial>>
    /\ UNCHANGED fuera_de_rm

\* After the loop: df_metricas = pd.DataFrame(metricas).T, the summary
\* messages, return.  The frame of an empty dict has no column, and the
\* summary's df_metricas['Retorno_Anual'] raises KeyError.
ArmarTabla ==
    /\ rm_pc = "loop"
    /\ columna = Len(Columnas)
    /\ IF DOMAIN metricas_riesgo = {}
       THEN /\ rm_pc' = "raised"
            /\ UNCHANGED df_metricas
       ELSE /\ rm_pc' = "done"
            /\ df_metricas' = metricas_riesgo
    /\ historial' = Append(historial,
                           [retornos |-> retornos, confianza |-> confianza,
                            estado |-> rm_pc', tabla |-> df_metricas',
                            avisos |-> avisos])
    /\ UNCHANGED <<retornos, confianza, columna, metricas_riesgo, avisos>>
    /\ UNCHANGED fuera_de_rm

NextRM == SaltarActivo \/ ProcesarActivo \/ ArmarTabla

SpecRM == InitRM /\ [][NextRM]_vars

-----------------------------------------------------------------------------
(* calcular_metricas_riesgo called several times by one caller *)

\* Frames of the repeated calls: complete columns, a column without values,
\* no value at all, and a column missing one observation
RetornosRepetidos ==
    {[a \in {"A", "B"} |-> IF a = "A" THEN <<Rat(-1, 10), Rat(1, 5)>>
                                     ELSE <<Rat(1, 5), Rat(1, 5)>>],
     [a \in {"A", "B"} |-> IF a = "A" THEN <<NaN, NaN>>
                                     ELSE <<Rat(1, 5), Rat(-1, 10)>>],
     [a \in {"A", "B"} |-> <<NaN, NaN>>],
     [a \in {"A", "B"} |-> IF a = "A" THEN <<Rat(1, 5), NaN>>
                                     ELSE <<Rat(-1, 10), Rat(-1, 10)>>]}

\* Variant: the dict of a call starts from the dict the previous call left
MetricasHeredadas(previas) == previas

\* `metricas = {}` at the start of a call
MetricasVacias(previas) == <<>>

InitRMRepetido ==
    /\ rm_pc = "loop"
    /\ retornos \in RetornosRepetidos
    /\ confianza \in ConfianzaSet
    /\ columna = 0
    /\ metricas_riesgo = <<>>
    /\ avisos = {}
    /\ df_metricas = None
    /\ historial = <<>>
    /\ BTIdle
    /\ MCIdle
    /\ OPIdle
    /\ FEIdle

\* The caller calls the function again once the previous call has returned
\* or raised: the parameters are bound and the locals start afresh
NuevaLlamada ==
    /\ rm_pc \in {"done", "raised"}
    /\ Len(historial) < MaxLlamadas
    /\ rm_pc' = "loop"
    /\ retornos' \in RetornosRepetidos
    /\ confianza' \in ConfianzaSet
    /\ columna' = 0
    /\ metricas_riesgo' = MetricasVacias(metricas_riesgo)
    /\ avisos' = {}
    /\ df_metricas' = None
    /\ UNCHANGED historial
    /\ UNCHANGED fuera_de_rm

NextRMRepetido == NextRM \/ NuevaLlamada

SpecRMRepetido == InitRMRepetido /\ [][NextRMRepetido]_vars

-----------------------------------------------------------------------------
(* optimizar_portfolio: the state machine *)

InitOpt ==
    /\ op_pc = "call"
    /\ objetivo \in ObjetivoSet
    /\ restricciones_opt \in RestriccionesOptSet
    /\ mercado_opt \in MercadosOpt
    /\ resultado_dict = None
    /\ BTIdle
    /\ MCIdle
    /\ RMIdle
    /\ FEIdle

ObjetivoReconocido == objetivo \in {"sharpe_max", "vol_min", "retorno_max"}

\* raise ValueError("Objetivo debe ser ...")
ObjetivoNoReconocido ==
    /\ op_pc = "call"
    /\ ~ObjetivoReconocido
    /\ op_pc' = "raised"
    /\ UNCHANGED <<objetivo, restricciones_opt, mercado_opt, resultado_dict>>
    /\ UNCHANGED fuera_de_op

\* minimize reports success: the metrics of the optimum are returned
OptimizacionExitosa ==
    /\ op_pc = "call"
    /\ ObjetivoReconocido
    /\ \E res \in OptimizarPortfolio(mercado_opt, objetivo, restricciones_opt) :
          /\ res.exito
          /\ resultado_dict' = res
    /\ op_pc' = "done"
    /\ UNCHANGED <<objetivo, restricciones_opt, mercado_opt>>
    /\ UNCHANGED fuera_de_op

\* minimize reports failure, or an exception is caught
OptimizacionFallida ==
    /\ op_pc = "call"
    /\ ObjetivoReconocido
    /\ \E res \in OptimizarPortfolio(mercado_opt, objetivo, restricciones_opt) :
          /\ ~res.exito
          /\ resultado_dict' = res
    /\ op_pc' = "done"
    /\ UNCHANGED <<objetivo, restricciones_opt, mercado_opt>>
    /\ UNCHANGED fuera_de_op

NextOpt == ObjetivoNoReconocido \/ OptimizacionExitosa \/ OptimizacionFallida

SpecOpt == InitOpt /\ [][NextOpt]_vars

-----------------------------------------------------------------------------
(* calcular_frontera_eficiente: the state machine *)

InitFE ==
    /\ fe_pc = "call"
    /\ num_puntos \in 1..MaxPuntos
    /\ \E e \in EntradasFE :
          /\ restricciones_fe = e.restricciones
          /\ mercado_fe = e.mercado
    /\ portfolio_min_vol = None
    /\ portfolio_max_ret = None
    /\ retornos_objetivo = <<>>
    /\ tomados = 0
    /\ frontera = <<>>
    /\ resueltos = {}
    /\ df_frontera = None
    /\ BTIdle
    /\ MCIdle
    /\ RMIdle
    /\ OPIdle

\* The two reference portfolios; one of them failed: return None
ReferenciasFallidas ==
    /\ fe_pc = "call"
    /\ \E pmin \in OptimizarPortfolio(mercado_fe, "vol_min", restricciones_fe),
          pmax \in OptimizarPortfolio(mercado_fe, "retorno_max", restricciones_fe) :
          /\ ~(pmin.exito /\ pmax.exito)
          /\ portfolio_min_vol' = pmin
          /\ portfolio_max_ret' = pmax
    /\ fe_pc' = "done"
    /\ UNCHANGED <<num_puntos, restricciones_fe, mercado_fe, retornos_objetivo,
                   tomados, frontera, resueltos, df_frontera>>
    /\ UNCHANGED fuera_de_fe

\* The two reference portfolios succeeded: the targets go from the net return
\* of the first to the net return of the second
ReferenciasResueltas ==
    /\ fe_pc = "call"
    /\ \E pmin \in OptimizarPortfolio(mercado_fe, "vol_min", restricciones_fe),
          pmax \in OptimizarPortfolio(mercado_fe, "retorno_max", restricciones_fe) :
          /\ pmin.exito /\ pmax.exito
          /\ portfolio_min_vol' = pmin
          /\ portfolio_max_ret' = pmax
          /\ retornos_objetivo' =
                Linspace(pmin.retorno_neto, pmax.retorno_neto, num_puntos)
    /\ fe_pc' = "loop"
    /\ UNCHANGED <<num_puntos, restricciones_fe, mercado_fe, tomados, frontera,
                   resueltos, df_frontera>>
    /\ UNCHANGED fuera_de_fe

\* for ret_target in retornos_objetivo: the solve succeeds and a row is appended
ObjetivoResuelto ==
    /\ fe_pc = "loop"
    /\ tomados < Len(retornos_objetivo)
    /\ LET ret_target == retornos_objetivo[tomados + 1]
       IN  \E salida \in MinimizeObjetivo(mercado_fe, restricciones_fe, ret_target) :
              /\ salida.estado = "exito"
              /\ frontera' = FilasTras(frontera, mercado_fe, ret_target, salida)
    /\ resueltos' = resueltos \cup {tomados + 1}
    /\ tomados' = tomados + 1
    /\ UNCHANGED <<fe_pc, num_puntos, restricciones_fe, mercado_fe,
                   portfolio_min_vol, portfolio_max_ret, retornos_objetivo,
                   df_frontera>>
    /\ UNCHANGED fuera_de_fe

\* for ret_target in retornos_objetivo: the solve fails or throws
ObjetivoOmitido ==
    /\ fe_pc = "loop"
    /\ tomados < Len(retornos_objetivo)
    /\ LET ret_target == retornos_objetivo[tomados + 1]
       IN  \E salida \in MinimizeObjetivo(mercado_fe, restricciones_fe, ret_target) :
              /\ salida.estado # "exito"
              /\ frontera' = FilasTras(frontera, mercado_fe, ret_target, salida)
    /\ tomados' = tomados + 1
    /\ UNCHANGED <<fe_pc, num_puntos, restricciones_fe, mercado_fe,
                   portfolio_min_vol, portfolio_max_ret, retornos_objetivo,
                   resueltos, df_frontera>>
    /\ UNCHANGED fuera_de_fe

\* Variant: an empty frontier is returned as an empty frame
FronteraVaciaComoTabla(filas) == FALSE

\* if len(frontera['Retorno']) == 0
FronteraVacia(filas) == Len(filas) = 0

\* After the loop with no row: return None
RetornarNone ==
    /\ fe_pc = "loop"
    /\ tomados = Len(retornos_objetivo)
    /\ FronteraVacia(frontera)
    /\ fe_pc' = "done"
    /\ UNCHANGED <<num_puntos, restricciones_fe, mercado_fe, portfolio_min_vol,
                   portfolio_max_ret, retornos_objetivo, tomados, frontera,
                   resueltos, df_frontera>>
    /\ UNCHANGED fuera_de_fe

\* After the loop with rows: build df_frontera and return it
RetornarFrontera ==
    /\ fe_pc = "loop"
    /\ tomados = Len(retornos_objetivo)
    /\ ~FronteraVacia(frontera)
    /\ df_frontera' = [filas |-> frontera]
    /\ fe_pc' = "done"
    /\ UNCHANGED <<num_puntos, restricciones_fe, mercado_fe, portfolio_min_vol,
                   portfolio_max_ret, retornos_objetivo, tomados, frontera,
                   resueltos>>
    /\ UNCHANGED fuera_de_fe

NextFE ==
    \/ ReferenciasFallidas
    \/ ReferenciasResueltas
    \/ ObjetivoResuelto
    \/ ObjetivoOmitido
    \/ RetornarNone
    \/ RetornarFrontera

SpecFE == InitFE /\ [][NextFE]_vars

-----------------------------------------------------------------------------
(* The library: a call of any one of the five functions *)

\* backtest_estrategia on a series of at most MaxRowsMotores rows
InitBTCorto ==
    /\ \E n \in 1..MaxRowsMotores :
          \E precios \in [1..n -> PriceSet], senales \in [1..n -> SignalSet],
             rate \in ComisionSet :
              BTStart(precios, senales, rate, Rat(1000, 1))
    /\ MCIdle /\ RMIdle /\ OPIdle /\ FEIdle

InitMotores == InitBTCorto \/ InitMC \/ InitRM \/ InitOpt \/ InitFE

NextMotores == Next \/ NextMC \/ NextRM \/ NextOpt \/ NextFE

SpecMotores == InitMotores /\ [][NextMotores]_vars

-----------------------------------------------------------------------------
(* Properties of backtest_estrategia *)

\* Row k (0-based) of the ledger
Fila(k) == datos[k + 1]

\* The loop is about to run its body on row i (i >= 1)
EnFila == bt_pc = "loop" /\ i >= 1 /\ i < Len(datos)

\* Row k >= 1 has been processed and executed a buy / a sell
CompraEjecutada(k) ==
    k >= 1 /\ k < i /\ Fila(k).Senal = 1 /\ Fila(k - 1).Posicion = 0
VentaEjecutada(k) ==
    k >= 1 /\ k < i /\ Fila(k).Senal = -1 /\ Fila(k - 1).Posicion = 1

\* C1: at a row i >= 1 with a buy signal while FLAT, the commission recorded
\* for the row is cash * comision, shares become (cash - commission) / price,
\* cash becomes 0 and the position becomes 1.
C1_BuyTransition ==
    [][(EnFila /\ Fila(i).Senal = 1 /\ posicion = 0) =>
          /\ datos'[i + 1].Comisiones = RMul(capital, comision)
          /\ acciones' = RDiv(RSub(capital, RMul(capital, comision)), Fila(i).Precio)
          /\ capital' = Zero
          /\ posicion' = 1]_vars

\* C1 witness: the last processed row executed a buy and paid a commission
C1_Witness ==
    /\ i >= 2
    /\ CompraEjecutada(i - 1)
    /\ posicion = 1
    /\ RLess(Zero, Fila(i - 1).Comisiones)

\* C2: at a row i >= 1 with a sell signal while LONG, proceeds are
\* shares * price, the commission recorded is proceeds * comision, cash becomes
\* proceeds - commission, shares become 0 and the position becomes 0.
C2_SellTransition ==
    [][(EnFila /\ Fila(i).Senal = -1 /\ posicion = 1) =>
          LET proceeds == RMul(acciones, Fila(i).Precio)
          IN  /\ datos'[i + 1].Comisiones = RMul(proceeds, comision)
              /\ capital' = RSub(proceeds, RMul(proceeds, comision))
              /\ acciones' = Zero
              /\ posicion' = 0]_vars

\* C2 witness: the last processed row executed a sell and paid a commission
C2_Witness ==
    /\ i >= 3
    /\ VentaEjecutada(i - 1)
    /\ posicion = 0
    /\ RLess(Zero, capital)
    /\ RLess(Zero, Fila(i - 1).Comisiones)

\* C3: every signal/state combination other than (buy, FLAT) and (sell, LONG)
\* leaves position, shares and cash unchanged and records no commission for
\* the row.
C3_OtherCombinationsNoOp ==
    [][(/\ EnFila
        /\ ~(Fila(i).Senal = 1 /\ posicion = 0)
        /\ ~(Fila(i).Senal = -1 /\ posicion = 1)) =>
          /\ posicion' = posicion
          /\ acciones' = acciones
          /\ capital' = capital
          /\ datos'[i + 1].Comisiones = Zero
          /\ datos'[i + 1].Posicion = posicion
          /\ datos'[i + 1].Acciones = acciones]_vars

\* C3 witness: in one replay a sell signal was ignored while FLAT and a buy
\* signal was ignored while LONG
C3_Witness ==
    /\ \E k \in 1..(i - 1) :
          /\ Fila(k).Senal = -1 /\ Fila(k - 1).Posicion = 0
          /\ Fila(k).Posicion = 0 /\ Fila(k).Comisiones = Zero
    /\ \E k \in 1..(i - 1) :
          /\ Fila(k).Senal = 1 /\ Fila(k - 1).Posicion = 1
          /\ Fila(k).Posicion = 1 /\ Fila(k).Comisiones = Zero

\* C4: the first row never triggers a transition whatever its signal: once
\* the loop has passed it the row shows FLAT, 0 shares, no commission and
\* equity capital_inicial, the carried state is still the initial one, and
\* the rows are visited one by one in increasing order.
C4_FirstRowSeedsOnly ==
    /\ [](i >= 1 =>
            /\ Fila(0).Posicion = 0
            /\ Fila(0).Acciones = Zero
            /\ Fila(0).Comisiones = Zero
            /\ Fila(0).Capital = capital_inicial
            /\ (i = 1 => posicion = 0 /\ acciones = Zero /\ capital = capital_inicial))
    /\ [][/\ i' \in {i, i + 1}
          /\ \A k \in 1..Len(datos) : (k <= i \/ i = 0) => datos'[k] = datos[k]]_vars

\* C4 witness: the first row carried a buy signal and the loop has passed it
C4_Witness == i = 1 /\ Fila(0).Senal = 1 /\ Len(datos) > 1

\* C5: the equity recorded for a replayed row is cash + shares * price after
\* the row's transition, and the recorded strategy return is the relative
\* change from the equity recorded for the previous row (capital_inicial for
\* the row before the first replayed one).
C5_EquityAndReturn ==
    [][EnFila =>
          LET equity == datos'[i + 1].Capital
              previous == Fila(i - 1).Capital
          IN  /\ equity = RAdd(capital', RMul(acciones', Fila(i).Precio))
              /\ datos'[i + 1].Retorno_Estrategia = RDiv(RSub(equity, previous), previous)
              /\ (i = 1 => previous = capital_inicial)]_vars

\* C5 witness: a row processed while LONG recorded a non-zero return
C5_Witness ==
    /\ i >= 3
    /\ Fila(i - 1).Posicion = 1
    /\ Fila(i - 2).Posicion = 1
    /\ Fila(i - 1).Retorno_Estrategia # Zero

\* C6: a buy executed at row b with cash C followed by the next sell at row
\* s > b (no sell signal in between) leaves cash
\* (C * (1 - r) / price_b) * price_s * (1 - r); with the default C = 100000,
\* r = 0.001, buy at row 1 and sell at row RoundTripSellRow the cash is
\* (99900 / price_1) * price_s * 0.999.
C6_RoundTripCash ==
    /\ \A b \in 1..(i - 2) :
          (/\ CompraEjecutada(b)
           /\ VentaEjecutada(i - 1)
           /\ \A k \in (b + 1)..(i - 2) : Fila(k).Senal # -1) =>
              LET C == Fila(b - 1).Capital
                  r1 == RSub(One, comision)
              IN  capital = RMul(RMul(RDiv(RMul(C, r1), Fila(b).Precio),
                                      Fila(i - 1).Precio), r1)
    /\ (/\ capital_inicial = Rat(100000, 1)
        /\ comision = Rat(1, 1000)
        /\ i = RoundTripSellRow + 1) =>
           capital = RMul(RMul(RDiv(Rat(99900, 1), Fila(1).Precio),
                               Fila(RoundTripSellRow).Precio), Rat(999, 1000))

\* C6 witness: the default-parameter replay has just sold at RoundTripSellRow
\* after ignoring a second buy signal, at a price different from the buy price
C6_Witness ==
    /\ capital_inicial = Rat(100000, 1)
    /\ comision = Rat(1, 1000)
    /\ i = RoundTripSellRow + 1
    /\ CompraEjecutada(1)
    /\ VentaEjecutada(RoundTripSellRow)
    /\ Fila(2).Senal = 1
    /\ Fila(1).Precio # Fila(RoundTripSellRow).Precio

\* C7: the position is always 0 or 1 and shares held are never negative, in
\* the carried state and in every ledger row.
C7_NoShort ==
    /\ posicion \in {0, 1}
    /\ RLeq(Zero, acciones)
    /\ \A k \in 1..Len(datos) :
          datos[k].Posicion \in {0, 1} /\ RLeq(Zero, datos[k].Acciones)

\* C7 witness: a sell signal was processed while FLAT
C7_Witness ==
    /\ i >= 2
    /\ Fila(i - 1).Senal = -1
    /\ Fila(i - 2).Posicion = 0
    /\ posicion = 0
    /\ acciones = Zero

\* The ledger fields of a row
Asiento(pos, acc, cap, ret, com) ==
    [Posicion |-> pos, Acciones |-> acc, Capital |-> cap,
     Retorno_Estrategia |-> ret, Comisiones |-> com]

\* The carried state after row t and the ledger fields of rows 0..t, built
\* row by row from the first t + 1 prices and signals: entry t + 1 of filas
\* is computed from entry t, the state carried from row t - 1, and the price
\* and signal of row t
RECURSIVE Replay(_, _, _, _, _)
Replay(precios, senales, rate, cap, t) ==
    IF t = 0
    THEN [st |-> Cartera(cap, Zero, 0),
          filas |-> <<Asiento(0, Zero, cap, Zero, Zero)>>]
    ELSE LET prev == Replay(precios, senales, rate, cap, t - 1)
             nuevo == Transicion(prev.st, precios[t + 1], senales[t + 1], rate)
             equity == CapitalTotal(nuevo, precios[t + 1])
         IN  [st |-> Cartera(nuevo.capital, nuevo.acciones, nuevo.posicion),
              filas |-> Append(prev.filas,
                               Asiento(nuevo.posicion, nuevo.acciones, equity,
                                       RetornoEstrategia(equity, prev.filas[t].Capital),
                                       nuevo.comision_pago))]

\* C8: one forward pass: a step writes only the ledger fields of the row it
\* processes, a row is never modified once the loop has passed it, and the
\* ledger fields of the processed rows 0..i-1 and the carried state are those
\* obtained from the prices and signals of rows 0..i-1 alone, each row from
\* the previous row's result and its own price and signal.
C8_ForwardPassNoLookahead ==
    /\ [][/\ Len(datos') = Len(datos)
          /\ \A k \in 1..Len(datos) :
                /\ (k # i + 1 \/ bt_pc # "loop") => datos'[k] = datos[k]
                /\ datos'[k].Precio = datos[k].Precio
                /\ datos'[k].Senal = datos[k].Senal]_vars
    /\ [](i >= 1 =>
            LET precios == [k \in 1..i |-> datos[k].Precio]
                senales == [k \in 1..i |-> datos[k].Senal]
                r == Replay(precios, senales, comision, capital_inicial, i - 1)
            IN  /\ Cartera(capital, acciones, posicion) = r.st
                /\ \A t \in 0..(i - 1) :
                      Asiento(Fila(t).Posicion, Fila(t).Acciones, Fila(t).Capital,
                              Fila(t).Retorno_Estrategia, Fila(t).Comisiones)
                          = r.filas[t + 1])

\* C8 witness: rows remain to be processed after a buy and a sell were
\* executed on rows with different prices
C8_Witness ==
    /\ bt_pc = "loop"
    /\ i < Len(datos)
    /\ \E b \in 1..(i - 1), s \in 1..(i - 1) :
          /\ b < s
          /\ CompraEjecutada(b)
          /\ VentaEjecutada(s)
          /\ Fila(b).Precio # Fila(s).Precio
    /\ Fila(i).Precio # Fila(i - 1).Precio

\* The ledger rows (0-based) with a non-hold signal, and those among them
\* with a positive step return
FilasConSenal == {k \in 0..(Len(datos) - 1) : Fila(k).Senal # 0}
FilasGanadoras ==
    {k \in FilasConSenal : RLess(Zero, Fila(k).Retorno_Estrategia)}

\* C24: the reported win rate is the number of ledger rows with a non-hold
\* signal and a positive step return divided by the number of ledger rows
\* with a non-hold signal, is 0 when no row has a non-hold signal, and lies
\* in [0, 1].
C24_WinRate ==
    bt_pc = "done" =>
        /\ FilasConSenal = {} => metricas.Win_Rate = Zero
        /\ FilasConSenal # {} =>
              RMul(metricas.Win_Rate, Rat(Cardinality(FilasConSenal), 1))
                  = Rat(Cardinality(FilasGanadoras), 1)
        /\ RLeq(Zero, metricas.Win_Rate)
        /\ RLeq(metricas.Win_Rate, One)

\* C24 witness: a finished replay with a winning signal row, a losing signal
\* row and a signal row whose step return is zero
C24_Witness ==
    /\ bt_pc = "done"
    /\ FilasGanadoras # {}
    /\ \E k \in FilasConSenal : RLess(Fila(k).Retorno_Estrategia, Zero)
    /\ \E k \in FilasConSenal : Fila(k).Retorno_Estrategia = Zero
    /\ metricas.Win_Rate # Zero
    /\ metricas.Win_Rate # One

\* C25: the reported Calmar ratio is the annualised strategy return divided
\* by the absolute value of the maximum drawdown, and is exactly 0 when the
\* maximum drawdown is 0 (no division takes place).
C25_CalmarRatio ==
    bt_pc = "done" =>
        IF metricas.Max_Drawdown = Zero
        THEN metricas.Calmar_Ratio = Zero
        ELSE /\ metricas.Calmar_Ratio.num = metricas.Retorno_Anualizado_Estrategia
             /\ metricas.Calmar_Ratio.den = RNeg(metricas.Max_Drawdown)
             /\ RLess(Zero, metricas.Calmar_Ratio.den)

\* C25 witness: a finished replay that lost money and has a drawdown
C25_Witness ==
    /\ bt_pc = "done"
    /\ RLess(metricas.Max_Drawdown, Zero)
    /\ RLess(metricas.Retorno_Total, Zero)
    /\ metricas.Calmar_Ratio.den = RNeg(metricas.Max_Drawdown)
    /\ \E k \in 1..(i - 1) : VentaEjecutada(k)

\* Row t >= 1 has been replayed
Procesada(t) == t >= 1 /\ t < i

\* C26: equity accounting identity: for every replayed row t >= 1,
\* equity_t = equity_{t-1} + shares held before row t * (price_t - price_{t-1})
\* - the commission recorded for row t (0 when no transition executed);
\* hence equity is constant from row to row while FLAT, equals shares * price
\* while LONG, and a transition takes exactly the recorded commission.
C26_EquityIdentity ==
    \A t \in 1..(Len(datos) - 1) :
        Procesada(t) =>
            LET antes == Fila(t - 1)
                fila == Fila(t)
                ejecutada == CompraEjecutada(t) \/ VentaEjecutada(t)
            IN  /\ fila.Capital =
                      RSub(RAdd(antes.Capital,
                                RMul(antes.Acciones,
                                     RSub(fila.Precio, antes.Precio))),
                           fila.Comisiones)
                /\ ~ejecutada => fila.Comisiones = Zero
                /\ (antes.Posicion = 0 /\ fila.Posicion = 0) =>
                       fila.Capital = antes.Capital
                /\ (antes.Posicion = 1 /\ fila.Posicion = 1) =>
                       fila.Capital = RMul(antes.Acciones, fila.Precio)
                /\ (ejecutada /\ fila.Precio = antes.Precio) =>
                       fila.Capital = RSub(antes.Capital, fila.Comisiones)

\* C26 witness: a buy, a held row with a price move and a sell at yet another
\* price have been replayed, each paying or moving equity
C26_Witness ==
    /\ i >= 4
    /\ CompraEjecutada(i - 3)
    /\ Fila(i - 2).Posicion = 1
    /\ Fila(i - 2).Precio # Fila(i - 3).Precio
    /\ VentaEjecutada(i - 1)
    /\ Fila(i - 1).Precio # Fila(i - 2).Precio
    /\ Fila(i - 1).Comisiones # Zero

\* Position 1 goes with no cash and some shares, position 0 with no shares
\* and some cash
Acoplados(pos, cap, acc) ==
    /\ pos = 1 => (cap = Zero /\ RLess(Zero, acc))
    /\ pos = 0 => (acc = Zero /\ RLess(Zero, cap))
    /\ ~(RLess(Zero, cap) /\ RLess(Zero, acc))

\* C27: with capital_inicial > 0, 0 <= comision < 1 and positive prices,
\* after every processed row position 1 implies cash = 0 and shares > 0,
\* position 0 implies shares = 0 and cash > 0, cash and shares are never
\* both positive, and the Acciones and Posicion recorded for the row are
\* those of the carried state.
C27_PositionCoupling ==
    (/\ bt_pc # "idle"
     /\ RLess(Zero, capital_inicial)
     /\ RLeq(Zero, comision) /\ RLess(comision, One)
     /\ \A k \in 1..Len(datos) : RLess(Zero, datos[k].Precio)) =>
        /\ Acoplados(posicion, capital, acciones)
        /\ i >= 2 =>
              /\ Fila(i - 1).Posicion = posicion
              /\ Fila(i - 1).Acciones = acciones
        /\ \A t \in 0..(Len(datos) - 1) :
              t < i =>
                 /\ Fila(t).Posicion = 1 => RLess(Zero, Fila(t).Acciones)
                 /\ Fila(t).Posicion = 0 => Fila(t).Acciones = Zero

\* C27 witness: the replay is LONG again after a buy and a sell, with every
\* cent of cash invested
C27_Witness ==
    /\ i >= 4
    /\ \E b \in 1..(i - 3), v \in 1..(i - 2) :
          b < v /\ CompraEjecutada(b) /\ VentaEjecutada(v)
    /\ CompraEjecutada(i - 1)
    /\ posicion = 1
    /\ capital = Zero
    /\ RLess(Zero, acciones)

\* Executed buys and sells among the rows 1..t
ComprasHasta(t) == Cardinality({k \in 1..t : CompraEjecutada(k)})
VentasHasta(t) == Cardinality({k \in 1..t : VentaEjecutada(k)})

\* C28: executed transitions alternate buy, sell, buy, ... starting with a
\* buy: at every replayed row the executed buys minus the executed sells are
\* 0 or 1 and equal the position, between two executed buys there is an
\* executed sell and before every executed sell an executed buy, and a row
\* has a non-zero Comisiones entry only if a transition executed on it.
C28_TransitionsAlternate ==
    /\ \A t \in 0..(Len(datos) - 1) :
          t < i =>
             /\ ComprasHasta(t) - VentasHasta(t) \in {0, 1}
             /\ ComprasHasta(t) - VentasHasta(t) = Fila(t).Posicion
             /\ Fila(t).Comisiones # Zero =>
                    (CompraEjecutada(t) \/ VentaEjecutada(t))
    /\ ComprasHasta(i - 1) - VentasHasta(i - 1) = posicion
    /\ \A b \in 1..(i - 1), c \in 1..(i - 1) :
          (b < c /\ CompraEjecutada(b) /\ CompraEjecutada(c)) =>
             \E v \in (b + 1)..(c - 1) : VentaEjecutada(v)
    /\ \A u \in 1..(i - 1), v \in 1..(i - 1) :
          (u < v /\ VentaEjecutada(u) /\ VentaEjecutada(v)) =>
             \E b \in (u + 1)..(v - 1) : CompraEjecutada(b)
    /\ \A v \in 1..(i - 1) :
          VentaEjecutada(v) => \E b \in 1..(v - 1) : CompraEjecutada(b)

\* C28 witness: a buy, a sell and a second buy were executed after a sell
\* signal was ignored while FLAT
C28_Witness ==
    /\ ComprasHasta(i - 1) = 2
    /\ VentasHasta(i - 1) = 1
    /\ posicion = 1
    /\ Fila(1).Senal = -1
    /\ Fila(1).Comisiones = Zero
    /\ Fila(i - 1).Comisiones # Zero

\* C29: Total_Trades is the number of ledger rows whose signal is non-zero,
\* the first row and the rows whose signal was ignored included; it is at
\* least the number of executed transitions.
C29_TotalTradesCountsSignals ==
    bt_pc = "done" =>
        /\ metricas.Total_Trades = Cardinality(FilasConSenal)
        /\ metricas.Total_Trades >= ComprasHasta(i - 1) + VentasHasta(i - 1)

\* C29 witness: Total_Trades exceeds the executed transitions: the first row
\* carries a signal, a later signal was ignored, and one buy was executed
C29_Witness ==
    /\ bt_pc = "done"
    /\ Fila(0).Senal # 0
    /\ \E k \in 1..(i - 1) :
          Fila(k).Senal # 0 /\ ~CompraEjecutada(k) /\ ~VentaEjecutada(k)
    /\ ComprasHasta(i - 1) + VentasHasta(i - 1) = 1
    /\ metricas.Total_Trades >= 3

-----------------------------------------------------------------------------
(* Properties of simular_portfolios *)

\* C9: the sampling loop terminates: every step of the call either returns
\* or makes exactly one more attempt, and attempts never exceed 10 * N, so
\* the call returns after at most 10 * N + 1 steps; the loop makes no further
\* attempt once N samples are accepted or 10 * N attempts are made, and it
\* then returns the accepted samples, fewer than N only when the attempt
\* ceiling was reached.
C9_SamplingTerminates ==
    /\ [][mc_pc = "loop" => (mc_pc' = "done" \/ intentos' = intentos + 1)]_vars
    /\ [](/\ simulaciones_exitosas <= num_simulaciones
          /\ intentos <= 10 * num_simulaciones
          /\ Len(resultados) = simulaciones_exitosas)
    /\ [](mc_pc = "done" =>
            \/ simulaciones_exitosas = num_simulaciones
            \/ intentos = 10 * num_simulaciones)
    /\ [][(\/ simulaciones_exitosas >= num_simulaciones
           \/ intentos >= 10 * num_simulaciones) =>
             /\ intentos' = intentos
             /\ resultados' = resultados
             /\ mc_pc' = "done"]_vars

\* C9 witness: the call returned at the attempt ceiling with one accepted
\* sample where two were asked for
C9_Witness ==
    /\ mc_pc = "done"
    /\ num_simulaciones = 2
    /\ intentos = 10 * num_simulaciones
    /\ simulaciones_exitosas = 1
    /\ Len(resultados) = 1

\* C10: every stored weight vector sums to 1 and has every component within
\* [peso_min, peso_max], and only accepted draws contribute a row.
C10_StoredWeightsValid ==
    /\ Len(resultados) = simulaciones_exitosas
    /\ \A k \in 1..Len(resultados) :
          /\ SumaPesos(resultados[k], Activos) = One
          /\ \A a \in Activos :
                /\ RLeq(PesoMin(restricciones), resultados[k][a])
                /\ RLeq(resultados[k][a], PesoMax(restricciones))

\* C11: with the default bounds [0, 1] (restricciones is None) no draw is
\* rejected: the call returns exactly N points after exactly N attempts, and
\* each point's weights are in [0, 1] and sum to 1.
C11_DefaultBoundsNoRejection ==
    (IsNone(restricciones) /\ mc_pc = "done") =>
        /\ intentos = num_simulaciones
        /\ Len(resultados) = num_simulaciones
        /\ \A k \in 1..Len(resultados) :
              /\ SumaPesos(resultados[k], Activos) = One
              /\ \A a \in Activos :
                    /\ RLeq(Zero, resultados[k][a])
                    /\ RLeq(resultados[k][a], One)

\* Some asset of the frame has fewer than two observations
PocasObservaciones(frame) == \E a \in Activos : Len(Dropna(frame[a])) < 2

\* C21: the computation of the annualised mean vector and covariance matrix
\* fails whenever an asset of the return matrix has fewer than two
\* observations: past that step of simular_portfolios no mean/covariance
\* result exists for such a matrix.
C21_InsufficientDataFails ==
    (mc_pc \in {"loop", "done"} /\ PocasObservaciones(retornos_mc)) =>
        IsNone(mercado)

-----------------------------------------------------------------------------
(* Properties of calcular_metricas_riesgo *)

\* The observations of asset a that the loop body works on
Observaciones(a) == Dropna(retornos[a])

\* Positions of the observations of a at or below its historical VaR
EnCola(a) ==
    {k \in 1..Len(Observaciones(a)) :
        RLeq(Observaciones(a)[k], metricas_riesgo[a].VaR_Historico)}

\* C19: the historical CVaR of an asset is the mean of its daily returns at or
\* below its historical VaR; with no return at or below the threshold it is
\* NaN; and computing it raises nothing: the loop goes on to the next column.
C19_CVaRTailMean ==
    /\ [](rm_pc # "idle" =>
            \A a \in DOMAIN metricas_riesgo :
                IF EnCola(a) = {}
                THEN IsNaN(metricas_riesgo[a].CVaR_Historico)
                ELSE FMul(metricas_riesgo[a].CVaR_Historico,
                          Rat(Cardinality(EnCola(a)), 1))
                       = FSum(Observaciones(a), EnCola(a)))
    /\ [][(rm_pc = "loop" /\ columna < Len(Columnas)) =>
             (rm_pc' = "loop" /\ columna' = columna + 1)]_vars

\* C19 witness: the first asset's tail holds some but not all of its
\* observations, and the loop went on to give the second asset its row
C19_Witness ==
    /\ rm_pc = "done"
    /\ DOMAIN metricas_riesgo = {Columnas[1], Columnas[2]}
    /\ EnCola(Columnas[1]) # {}
    /\ Cardinality(EnCola(Columnas[1])) < Len(Observaciones(Columnas[1]))
    /\ RLess(metricas_riesgo[Columnas[1]].CVaR_Historico,
             metricas_riesgo[Columnas[1]].VaR_Historico)

\* C20: for every return matrix the call completes without aborting and
\* returns a table with exactly one row per asset that has an observation;
\* an asset without observations is reported and skipped, whatever the
\* number of such assets.
C20_OneRowPerUsableAsset ==
    /\ rm_pc # "raised"
    /\ rm_pc = "done" =>
          /\ DOMAIN df_metricas =
                {Columnas[k] : k \in {j \in 1..Len(Columnas) :
                                        Len(Observaciones(Columnas[j])) > 0}}
          /\ avisos =
                {Columnas[k] : k \in {j \in 1..Len(Columnas) :
                                        Len(Observaciones(Columnas[j])) = 0}}

\* The arguments of the j-th completed call
Argumentos(j) == <<historial[j].retornos, historial[j].confianza>>

\* What the j-th completed call handed to its caller: the table or the
\* exception, and the assets it reported as empty
Salida(j) == <<historial[j].estado, historial[j].tabla, historial[j].avisos>>

\* C23: calcular_metricas_riesgo is a function of its arguments: two calls
\* with the same return matrix and confidence level (ventana_vol at its
\* default) end the same way with the same metric values for every asset,
\* whatever calls were made in between, and a call leaves its return matrix
\* unchanged.
C23_RiskMetricsPure ==
    /\ [](\A j \in 1..Len(historial), k \in 1..Len(historial) :
             Argumentos(j) = Argumentos(k) => Salida(j) = Salida(k))
    /\ [][rm_pc = "loop" => retornos' = retornos]_vars

\* C23 witness: the third call repeats the arguments of the first after a
\* call with another matrix, and the repeated call skipped one asset and
\* returned the metrics of the other
C23_Witness ==
    /\ Len(historial) = 3
    /\ Argumentos(1) = Argumentos(3)
    /\ historial[2].retornos # historial[1].retornos
    /\ historial[3].estado = "done"
    /\ historial[3].avisos # {}
    /\ historial[2].estado = "done"
    /\ historial[2].avisos = {}

-----------------------------------------------------------------------------
(* Properties of optimizar_portfolio *)

\* C14: for a recognised objective the call never raises; a failed or
\* throwing solve returns {'exito': False, 'error': message} and no weights,
\* and weights are returned only in a result whose 'exito' is True.
C14_FailureIsStructured ==
    /\ [][(op_pc = "call" /\ ObjetivoReconocido) => op_pc' = "done"]_vars
    /\ [](op_pc = "done" =>
            /\ ~resultado_dict.exito =>
                  /\ DOMAIN resultado_dict = {"exito", "error"}
                  /\ resultado_dict.error \in {"resultado.message", "str(e)"}
            /\ "pesos" \in DOMAIN resultado_dict =>
                  /\ resultado_dict.exito
                  /\ resultado_dict.pesos \in Factibles(CotasOpt(restricciones_opt)))

\* C14 witness: a call with the default restricciones returned the failure
\* dict that carries the message of an exception
C14_Witness ==
    /\ op_pc = "done"
    /\ IsNone(restricciones_opt)
    /\ ~resultado_dict.exito
    /\ resultado_dict.error = "str(e)"

\* C15: the maximise-Sharpe objective is never preferred by the minimiser on
\* a zero-volatility weight vector over one with positive volatility, so a
\* successful maximise-Sharpe call returns a zero-volatility portfolio only
\* when no feasible vector has positive volatility.
C15_ZeroVolNeverSelected ==
    (op_pc = "done" /\ objetivo = "sharpe_max" /\ resultado_dict.exito) =>
        LET factibles == Factibles(CotasOpt(restricciones_opt))
            positivos ==
                {w \in factibles :
                    VolPositiva(Volatilidad2(mercado_opt, w, ActivosOpt))}
        IN  /\ \A w0 \in factibles \ positivos, w1 \in positivos :
                  ~Menor(ObjetivoSharpe(mercado_opt, restricciones_opt, w0),
                         ObjetivoSharpe(mercado_opt, restricciones_opt, w1))
            /\ positivos # {} => VolPositiva(resultado_dict.volatilidad)

-----------------------------------------------------------------------------
(* Properties of calcular_frontera_eficiente *)

\* The call has returned None / has returned a frame
RetornoNone == fe_pc = "done" /\ IsNone(df_frontera)
RetornoTabla == fe_pc = "done" /\ ~IsNone(df_frontera)

\* Both reference portfolios were solved
ReferenciasExitosas == portfolio_min_vol.exito /\ portfolio_max_ret.exito

RangoResuelto(k) == Cardinality({j \in resueltos : j <= k})

\* C17: the frontier holds exactly one row per target whose solve succeeded
\* (at most num_puntos rows), in the order of the targets; a target whose
\* solve failed or threw contributes no row and no placeholder; and the rows
\* are in non-decreasing order of target return.
C17_OneRowPerSolvedTarget ==
    fe_pc \in {"loop", "done"} =>
        /\ Len(frontera) = Cardinality(resueltos)
        /\ Len(frontera) <= num_puntos
        /\ resueltos \subseteq 1..tomados
        /\ \A k \in resueltos :
              /\ frontera[RangoResuelto(k)].Retorno = retornos_objetivo[k]
              /\ frontera[RangoResuelto(k)].Pesos
                    \in Factibles(CotasFrontera(restricciones_fe))
              /\ ~IsNaN(frontera[RangoResuelto(k)].Volatilidad)
        /\ \A j \in 1..Len(frontera), k \in 1..Len(frontera) :
              j < k => RLeq(frontera[j].Retorno, frontera[k].Retorno)
        /\ RetornoTabla => df_frontera.filas = frontera

\* C17 witness: of three targets the second was not solved, and the frame
\* returned holds the first and the third, the third with the larger return
C17_Witness ==
    /\ RetornoTabla
    /\ num_puntos = 3
    /\ resueltos = {1, 3}
    /\ Len(df_frontera.filas) = 2
    /\ RLess(df_frontera.filas[1].Retorno, df_frontera.filas[2].Retorno)

\* C18: every point of the frontier has a volatility at least that of the
\* minimise-volatility portfolio of the same call, for every restricciones.
C18_FrontierAboveMinVol ==
    (fe_pc \in {"loop", "done"} /\ ReferenciasExitosas) =>
        \A j \in 1..Len(frontera) :
            RLeq(portfolio_min_vol.volatilidad, frontera[j].Volatilidad)

\* The bounds the two bracketing solves were run with, as reported in the
\* result of the vol_min solve
CotasReferencia ==
    [lo |-> Get(portfolio_min_vol.restricciones_aplicadas, "peso_min", Zero),
     hi |-> Get(portfolio_min_vol.restricciones_aplicadas, "peso_max", One)]

\* C30: within one call the bounds of the per-target minimisations are the
\* bounds of the two bracketing solves, for every restricciones (None and
\* dicts without peso_min or peso_max included).
C30_SameBoundsInCall ==
    (fe_pc = "loop" /\ ReferenciasExitosas) =>
        /\ CotasReferencia = CotasOpt(restricciones_fe)
        /\ CotasFrontera(restricciones_fe) = CotasReferencia

-----------------------------------------------------------------------------
(* Properties shared by the engines *)

\* n * peso_min > 1 or n * peso_max < 1: no vector of n weights within
\* [peso_min, peso_max] sums to 1
Infactible(n, peso_min, peso_max) ==
    \/ RLess(One, RMul(Rat(n, 1), peso_min))
    \/ RLess(RMul(Rat(n, 1), peso_max), One)

\* C22: when the bounds make the simplex constraint unsatisfiable, the weight
\* engines report an error and return no weight vector: simular_portfolios
\* accepts no sample and does not return a table, and optimizar_portfolio
\* returns no result whose success flag is True.
C22_InfeasibleBoundsReported ==
    /\ (/\ mc_pc # "idle"
        /\ Infactible(Cardinality(Activos), PesoMin(restricciones),
                      PesoMax(restricciones))) =>
           (Len(resultados) = 0 /\ mc_pc # "done")
    /\ (/\ op_pc = "done"
        /\ Infactible(Cardinality(ActivosOpt), CotasOpt(restricciones_opt).lo,
                      CotasOpt(restricciones_opt).hi)) =>
           ~resultado_dict.exito


\* A Sharpe ratio computed from a volatility: it is the float 0 when the
\* volatility is 0, and it is a quotient only by a positive volatility
SharpeGuardado(sharpe, vol_cero, vol_positiva) ==
    /\ vol_cero => sharpe = Zero
    /\ sharpe # Zero => vol_positiva

SharpeGuardado2(sharpe, vol2) ==
    SharpeGuardado(sharpe, vol2 = Zero, VolPositiva(vol2))

\* C12: every Sharpe ratio the engines compute (per asset, per sample, gross
\* and net of the optimum, of the reference portfolios and of each frontier
\* point, of the strategy and of buy-and-hold) is exactly 0 whenever its
\* volatility is 0, and no division by zero is performed.
C12_SharpeZeroWhenVolZero ==
    /\ rm_pc # "idle" =>
          \A a \in DOMAIN metricas_riesgo :
              SharpeGuardado2(metricas_riesgo[a].Sharpe_Ratio,
                              metricas_riesgo[a].Volatilidad_Anual)
    /\ \A k \in 1..Len(resultados_metricas) :
          SharpeGuardado2(resultados_metricas[k].Sharpe,
                          resultados_metricas[k].Volatilidad)
    /\ (op_pc = "done" /\ resultado_dict.exito) =>
          /\ SharpeGuardado2(resultado_dict.sharpe_bruto, resultado_dict.volatilidad)
          /\ SharpeGuardado2(resultado_dict.sharpe_neto, resultado_dict.volatilidad)
    /\ fe_pc \in {"loop", "done"} =>
          /\ \A pf \in {portfolio_min_vol, portfolio_max_ret} :
                pf.exito =>
                   /\ SharpeGuardado2(pf.sharpe_bruto, pf.volatilidad)
                   /\ SharpeGuardado2(pf.sharpe_neto, pf.volatilidad)
          /\ \A j \in 1..Len(frontera) :
                SharpeGuardado2(frontera[j].Sharpe, frontera[j].Volatilidad)
    /\ bt_pc = "done" =>
          /\ SharpeGuardado(metricas.Sharpe_Estrategia,
                            metricas.Volatilidad_Estrategia = "cero",
                            metricas.Volatilidad_Estrategia = "positiva")
          /\ SharpeGuardado(metricas.Sharpe_BuyHold,
                            metricas.Volatilidad_BuyHold = "cero",
                            metricas.Volatilidad_BuyHold = "positiva")

\* C12 witness: an asset with a non-zero mean return and zero volatility got
\* the Sharpe ratio 0, next to an asset with a quotient for Sharpe ratio
C12_Witness ==
    /\ rm_pc = "done"
    /\ \E a \in DOMAIN metricas_riesgo, b \in DOMAIN metricas_riesgo :
          /\ metricas_riesgo[a].Volatilidad_Anual = Zero
          /\ metricas_riesgo[a].Retorno_Anual # Zero
          /\ metricas_riesgo[a].Sharpe_Ratio = Zero
          /\ metricas_riesgo[b].Sharpe_Ratio # Zero

\* the equity of the ledger never falls from one row to the next
CapitalNoDecreciente ==
    \A k \in 2..Len(datos) : RLeq(datos[k - 1].Capital, datos[k].Capital)

\* the cumulative-return index of asset a never falls
IndiceNoDecreciente(a) ==
    \A k \in 2..Len(Observaciones(a)) :
        RLeq(PrecioCum(Observaciones(a), k - 1), PrecioCum(Observaciones(a), k))

\* the cumulative-return index of asset a and the equity of the ledger
Indice(a) ==
    [k \in 1..Len(Observaciones(a)) |-> PrecioCum(Observaciones(a), k)]
Equity == [k \in 1..Len(datos) |-> datos[k].Capital]

\* a <= b for two numbers, cross-multiplying without the common factor of
\* the denominators
MenorOIgual(a, b) ==
    LET g == GCD(a.d, b.d)
    IN  a.n * (b.d \div g) <= b.n * (a.d \div g)

\* the largest of the values v[1..k], and the drawdown of v[k] from it
PicoHasta(v, k) ==
    CHOOSE x \in {v[j] : j \in 1..k} : \A j \in 1..k : MenorOIgual(v[j], x)
Caida(v, k) == RDiv(RSub(v[k], PicoHasta(v, k)), PicoHasta(v, k))

\* mdd is the smallest drawdown of the series v
EsMinimaCaida(mdd, v) ==
    /\ \E k \in 1..Len(v) : mdd = Caida(v, k)
    /\ \A k \in 1..Len(v) : MenorOIgual(mdd, Caida(v, k))

\* C13: the maximum drawdown is the minimum over time of (value - running
\* peak) / running peak; it is at most 0, and it is 0 whenever the series of
\* values (the cumulative-return index of an asset, the equity of the
\* ledger) never decreases.
C13_MaxDrawdownNonPositive ==
    /\ rm_pc # "idle" =>
          \A a \in DOMAIN metricas_riesgo :
              /\ EsMinimaCaida(metricas_riesgo[a].Max_Drawdown, Indice(a))
              /\ RLeq(metricas_riesgo[a].Max_Drawdown, Zero)
              /\ IndiceNoDecreciente(a) => metricas_riesgo[a].Max_Drawdown = Zero
    /\ bt_pc = "done" =>
          /\ EsMinimaCaida(metricas.Max_Drawdown, Equity)
          /\ RLeq(metricas.Max_Drawdown, Zero)
          /\ CapitalNoDecreciente => metricas.Max_Drawdown = Zero

\* C13 witness: the index of one asset rose at every step and its maximum
\* drawdown is 0, the index of the other fell and its maximum drawdown is
\* negative
C13_Witness ==
    /\ rm_pc = "done"
    /\ \E a \in DOMAIN metricas_riesgo, b \in DOMAIN metricas_riesgo :
          /\ Len(Observaciones(a)) >= 2
          /\ IndiceNoDecreciente(a)
          /\ RLess(One, PrecioCum(Observaciones(a), Len(Observaciones(a))))
          /\ metricas_riesgo[a].Max_Drawdown = Zero
          /\ RLess(metricas_riesgo[b].Max_Drawdown, Zero)

====
